---- MODULE Spec2Model ----
(***************************************************************************)
(* A model of the files_manager backend: the Express handlers of           *)
(* UsersController, AuthController and FileController, the Redis session   *)
(* cache behind utils/redis.js and the MongoDB collections behind          *)
(* utils/db.js.                                                            *)
(*                                                                         *)
(* Every handler is an async function that suspends only where it awaits   *)
(* a backing store.  A handler is modelled as one action per awaited call: *)
(* the action is the moment the store performs the call, together with     *)
(* the handler's code before it (back to the previous await, or to the     *)
(* arrival of the request) and after it (up to the issue of the next       *)
(* call, or to the response).  That code reads and writes nothing shared,  *)
(* so the interleavings of the store calls are the interleavings of the    *)
(* requests.  A request that waits for a second or later call occupies a   *)
(* slot; requests in different slots interleave freely.                    *)
(*                                                                         *)
(* JavaScript values are sequences of integers.  A string is the sequence  *)
(* of its character codes; a value that is not a string starts with a      *)
(* negative tag (undefined, ObjectId, number, boolean, SHA1 digest).       *)
(***************************************************************************)
EXTENDS Integers, Sequences, FiniteSets, TLC

(***************************************************************************)
(* Bounds of the model.                                                    *)
(***************************************************************************)
MaxUsers == 2    \* documents in the users collection
MaxTokens == 1   \* tokens that getConnect generates
MaxTicks == 2    \* steps of the clock
MaxFiles == 2    \* documents in the files collection

\* The places where a request waits for a backing store: two requests wait
\* at the same time, the least number whose store calls interleave.
Slots == {1, 2}

(***************************************************************************)
(* JavaScript values.                                                      *)
(***************************************************************************)
undefined == <<-1>>

null == <<-6>>

ObjectId(n) == <<-2, n>>

Number(n) == <<-3, n>>

true == <<-4, 1>>

false == <<-4, 0>>

\* !v: undefined, null, the empty string, the number 0 and false are falsy.
Falsy(v) == v \in {undefined, null, <<>>, Number(0), false}

\* The string a client reads for an ObjectId in a JSON response
\* (ObjectId.toJSON is its hex string): "o" followed by a digit.
ToHexString(oid) == <<111, 48 + oid[2]>>

\* uuid.v4(): the n-th call returns a string no other call returns.
\* The string is "u" followed by a digit.
v4(n) == <<117, 48 + n>>

\* SHA1(message): a digest, equal for equal messages, different for
\* different messages, never equal to a plaintext.
SHA1(message) == <<-5>> \o message

(***************************************************************************)
(* String.prototype.indexOf / slice, as BasicAuth uses them.               *)
(***************************************************************************)
IndexOf(s, c) ==
  IF \E i \in 1..Len(s) : s[i] = c
    THEN (CHOOSE i \in 1..Len(s) : s[i] = c /\ \A j \in 1..(i - 1) : s[j] # c) - 1
    ELSE -1

\* s.slice(begin, end) with 0-based indices; negative indices count from the end.
Slice(s, begin, end) ==
  LET n == Len(s)
      norm(k) == IF k < 0 THEN (IF n + k < 0 THEN 0 ELSE n + k)
                 ELSE (IF k > n THEN n ELSE k)
      b == norm(begin)
      e == norm(end)
  IN IF b >= e THEN <<>> ELSE SubSeq(s, b + 1, e)

StartsWith(s, prefix) ==
  Len(s) >= Len(prefix) /\ SubSeq(s, 1, Len(prefix)) = prefix

(***************************************************************************)
(* Buffer.from(s, 'base64').toString('utf-8').                             *)
(***************************************************************************)
\* The 6-bit value of a base64 character, -1 for a character outside both
\* the standard and the URL-safe alphabet.
Sextet(c) ==
  IF c >= 65 /\ c <= 90 THEN c - 65
  ELSE IF c >= 97 /\ c <= 122 THEN c - 71
  ELSE IF c >= 48 /\ c <= 57 THEN c + 4
  ELSE IF c = 43 \/ c = 45 THEN 62
  ELSE IF c = 47 \/ c = 95 THEN 63
  ELSE -1

\* The 6-bit values of a base64 string: characters outside the alphabet
\* (white space) are skipped and the first "=" ends the input.
RECURSIVE Sextets(_)
Sextets(s) ==
  IF s = <<>> \/ Head(s) = 61 THEN <<>>
  ELSE IF Sextet(Head(s)) = -1 THEN Sextets(Tail(s))
  ELSE <<Sextet(Head(s))>> \o Sextets(Tail(s))

\* Four 6-bit values make three bytes; a rest of three makes two bytes, a
\* rest of two makes one byte, a rest of one makes none.
RECURSIVE SextetsToBytes(_)
SextetsToBytes(x) ==
  LET b1 == x[1] * 4 + (x[2] \div 16)
      b2 == (x[2] % 16) * 16 + (x[3] \div 4)
      b3 == (x[3] % 4) * 64 + x[4]
  IN IF Len(x) >= 4 THEN <<b1, b2, b3>> \o SextetsToBytes(SubSeq(x, 5, Len(x)))
     ELSE IF Len(x) = 3 THEN <<b1, b2>>
     ELSE IF Len(x) = 2 THEN <<b1>>
     ELSE <<>>

Base64Decode(s) == SextetsToBytes(Sextets(s))

\* buffer.toString('utf-8'): one-, two- and three-byte forms are decoded,
\* every other byte becomes U+FFFD (65533).  Four-byte forms are not
\* modelled; no input of the model holds one.
IsContinuation(b) == b >= 128 /\ b <= 191

RECURSIVE Utf8ToString(_)
Utf8ToString(b) ==
  IF b = <<>> THEN <<>>
  ELSE IF b[1] < 128 THEN <<b[1]>> \o Utf8ToString(Tail(b))
  ELSE IF b[1] >= 194 /\ b[1] <= 223 /\ Len(b) >= 2 /\ IsContinuation(b[2])
    THEN <<(b[1] - 192) * 64 + (b[2] - 128)>> \o Utf8ToString(SubSeq(b, 3, Len(b)))
  ELSE IF b[1] >= 224 /\ b[1] <= 239 /\ Len(b) >= 3
          /\ IsContinuation(b[2]) /\ IsContinuation(b[3])
    THEN <<(b[1] - 224) * 4096 + (b[2] - 128) * 64 + (b[3] - 128)>>
           \o Utf8ToString(SubSeq(b, 4, Len(b)))
  ELSE <<65533>> \o Utf8ToString(Tail(b))

\* The bytes fs.writeFile writes for a string: its UTF-8 encoding, for
\* characters up to U+FFFF.
RECURSIVE Utf8Encode(_)
Utf8Encode(s) ==
  IF s = <<>> THEN <<>>
  ELSE IF s[1] < 128 THEN <<s[1]>> \o Utf8Encode(Tail(s))
  ELSE IF s[1] < 2048
    THEN <<192 + (s[1] \div 64), 128 + (s[1] % 64)>> \o Utf8Encode(Tail(s))
  ELSE <<224 + (s[1] \div 4096), 128 + ((s[1] \div 64) % 64), 128 + (s[1] % 64)>>
         \o Utf8Encode(Tail(s))

(***************************************************************************)
(* utils/BasicAuth.js.  A function that throws returns [error |-> message];*)
(* one that returns gives [error |-> "", value |-> ...].                   *)
(***************************************************************************)
Thrown(message) == [error |-> message, value |-> undefined]

Returned(v) == [error |-> "", value |-> v]

BasicPrefix == <<66, 97, 115, 105, 99, 32>>    \* "Basic "

Colon == 58                                     \* ":"

GetAuthorization(authorization) ==
  IF Falsy(authorization) THEN Thrown("Missing Authorization Header")
  ELSE Returned(authorization)

DecodeAuthorizationHeader(encodedHeader) ==
  IF Falsy(encodedHeader) THEN Thrown("Missing Authorization Header")
  ELSE Returned(Utf8ToString(Base64Decode(encodedHeader)))

ExtractAuthorizationHeader(authorizationHeader) ==
  IF Falsy(authorizationHeader) THEN Thrown("Missing Authorization Header")
  ELSE IF ~StartsWith(authorizationHeader, BasicPrefix)
    THEN Thrown("Authorization Header does not start with Basic")
  ELSE Returned(Slice(authorizationHeader, 5, Len(authorizationHeader)))

\* A split at the last colon of the string.
SplitAuthorizationHeaderAtLastColon(authorizationHeader) ==
  IF Falsy(authorizationHeader) THEN Thrown("Missing Authorization Header")
  ELSE LET colons == {i \in 1..Len(authorizationHeader) :
                        authorizationHeader[i] = Colon}
           colonIndex == IF colons = {} THEN -1
                         ELSE (CHOOSE i \in colons : \A j \in colons : j <= i) - 1
       IN Returned(<<Slice(authorizationHeader, 0, colonIndex),
                     Slice(authorizationHeader, colonIndex + 1,
                           Len(authorizationHeader))>>)

\* The value is the pair <<email, password>>.
SplitAuthorizationHeader(authorizationHeader) ==
  IF Falsy(authorizationHeader) THEN Thrown("Missing Authorization Header")
  ELSE LET colonIndex == IndexOf(authorizationHeader, Colon)
       IN Returned(<<Slice(authorizationHeader, 0, colonIndex),
                     Slice(authorizationHeader, colonIndex + 1,
                           Len(authorizationHeader))>>)

GetCredentials(encodedHeader) ==
  IF Falsy(encodedHeader) THEN Thrown("Missing Authorization Header")
  ELSE LET authorizationHeader == ExtractAuthorizationHeader(encodedHeader)
       IN IF authorizationHeader.error # "" THEN authorizationHeader
          ELSE LET decodedHeader == DecodeAuthorizationHeader(authorizationHeader.value)
               IN IF decodedHeader.error # "" THEN decodedHeader
                  ELSE SplitAuthorizationHeader(decodedHeader.value)

(***************************************************************************)
(* State.                                                                  *)
(***************************************************************************)
VARIABLES
  dbState,    \* DBClient: "connecting", "connected" or "failed"
  users,      \* the users collection, in insertion order
  files,      \* the files collection, in insertion order
  sessions,   \* Redis: key -> [value, expiresAt]
  now,        \* the clock, in seconds
  uuids,      \* how many times uuid.v4() was called
  fsRoot,     \* whether the directory FOLDER_PATH exists
  blobs,      \* the files under FOLDER_PATH: path -> bytes
  writes,     \* fs.writeFile calls issued and not finished: {[path, data]}
  reqs,       \* the requests waiting for a backing store: slot -> request
  issued,     \* history: token -> [userId, email, at], one per connect
  revoked     \* history: the tokens a disconnect has deleted

vars == <<dbState, users, files, sessions, now, uuids, fsRoot, blobs, writes,
          reqs, issued, revoked>>

TTL == 86400    \* seconds a session lives

(***************************************************************************)
(* utils/redis.js over a Redis server: setex, get, del.  A key is gone     *)
(* from the moment its time to live has elapsed.                           *)
(***************************************************************************)
AuthPrefix == <<97, 117, 116, 104, 95>>    \* "auth_"

AuthKey(token) == AuthPrefix \o token

Live(key) == key \in DOMAIN sessions /\ now < sessions[key].expiresAt

\* redisClient.set(key, value, duration): the store after SETEX.
RedisSet(key, value, duration) ==
  [k \in DOMAIN sessions \cup {key} |->
     IF k = key THEN [value |-> value, expiresAt |-> now + duration]
     ELSE sessions[k]]

\* redisClient.get(key): the value, or null.
RedisGet(key) == IF Live(key) THEN sessions[key].value ELSE null

\* A del that reports one deleted key whether the key was there or not.
RedisDelAlwaysOne(key) == 1

\* redisClient.del(key): the number of keys deleted.
RedisDel(key) == IF Live(key) THEN 1 ELSE 0

\* The store after DEL key.
RedisAfterDel(key) == [k \in DOMAIN sessions \ {key} |-> sessions[k]]

\* The store at time t: the keys whose time to live has not elapsed.
RedisAt(t) ==
  [k \in {x \in DOMAIN sessions : t < sessions[x].expiresAt} |-> sessions[k]]

(***************************************************************************)
(* utils/db.js over MongoDB.  A collection is the sequence of its          *)
(* documents in insertion order; findOne returns the first match.          *)
(***************************************************************************)
NullDoc == [_id |-> null]

IsNull(doc) == doc._id = null

\* The _id the driver gives the next inserted document.
NewObjectId == ObjectId(Len(users) + Len(files) + 1)

\* this.usersCollection and this.filesCollection are set by the callback of
\* MongoClient.connect; before it getUser and createUser evaluate
\* this.db.collection with this.db undefined and throw a TypeError.
UsersCollectionReady == dbState = "connected"

TypeErrorMessage == "Cannot read property 'collection' of undefined"

\* dbClient.getUser(email): usersCollection.findOne({ email }).
GetUser(email) ==
  LET hits == {i \in 1..Len(users) : users[i].email = email}
  IN IF hits = {} THEN NullDoc
     ELSE users[CHOOSE i \in hits : \A j \in hits : i <= j]

\* A createUser that stores the password as it is given.
CreateUserPlainPassword(email, password) ==
  [_id |-> NewObjectId, email |-> email, password |-> password]

\* dbClient.createUser(email, password): the document insertOne stores.
CreateUser(email, password) ==
  [_id |-> NewObjectId, email |-> email, password |-> SHA1(password)]

FOLDER == <<102, 111, 108, 100, 101, 114>>    \* "folder"

FILE == <<102, 105, 108, 101>>                \* "file"

IMAGE == <<105, 109, 97, 103, 101>>           \* "image"

\* process.env.FOLDER_PATH || '/tmp/files_manager'
FOLDER_PATH ==
  <<47, 116, 109, 112, 47, 102, 105, 108, 101, 115, 95, 109, 97, 110, 97,
    103, 101, 114>>

\* ObjectId(v) of the driver for an ObjectId or for the hex string of one.
ToObjectId(v) == IF v[1] = -2 THEN v ELSE ObjectId(v[2] - 48)

\* A getFile that converts the id and leaves the owner out of the filter.
GetFileOfAnyOwner(id, userId) ==
  LET hits == {i \in 1..Len(files) : ToHexString(files[i]._id) = id}
  IN IF hits = {} THEN NullDoc
     ELSE files[CHOOSE i \in hits : \A j \in hits : i <= j]

\* dbClient.getFile(id, userId):
\* filesCollection.findOne({ _id: id, userId: ObjectId(userId) }).
\* The id is compared as it is given: a string is not equal to an ObjectId.
GetFile(id, userId) ==
  LET hits == {i \in 1..Len(files) :
                 files[i]._id = id /\ files[i].userId = ToObjectId(userId)}
  IN IF hits = {} THEN NullDoc
     ELSE files[CHOOSE i \in hits : \A j \in hits : i <= j]

\* dbClient.createFile(userId, name, type, parentId, isPublic, localPath):
\* the document insertOne stores.
CreateFile(userId, name, type, parentId, isPublic, localPath) ==
  IF ~Falsy(localPath)
    THEN [_id |-> NewObjectId, userId |-> userId, name |-> name, type |-> type,
          parentId |-> parentId, isPublic |-> isPublic, localPath |-> localPath]
    ELSE [_id |-> NewObjectId, userId |-> userId, name |-> name, type |-> type,
          isPublic |-> isPublic, parentId |-> parentId]

(***************************************************************************)
(* Requests.  A request holds what the handler was given (token, email,    *)
(* password, authorization, body), its local variables (user, newToken,    *)
(* path), the backing-store calls it made (calls), the time of its call of *)
(* the session cache (cacheAt), whether its token had been deleted by a    *)
(* disconnect by then (cacheRevoked), and its response (status, json).     *)
(* The operators named ...End give the request as a step of its handler    *)
(* leaves it: ended, with its response, or waiting for the next call.      *)
(***************************************************************************)
NoBody == [none |-> TRUE]

Idle ==
  [op |-> "idle", pc |-> "idle",
   token |-> undefined, email |-> undefined, password |-> undefined,
   authorization |-> undefined, body |-> NoBody,
   user |-> NullDoc, newToken |-> undefined, path |-> undefined,
   calls |-> <<>>, cacheAt |-> -1, cacheRevoked |-> FALSE,
   status |-> 0, json |-> NoBody]

\* res.status(status).json(json)
Respond(q, status, json) ==
  [q EXCEPT !.pc = "done", !.status = status, !.json = json]

Error(message) == [error |-> message]

Call(q, name) == [q EXCEPT !.calls = Append(@, name)]

At(q, pc) == [q EXCEPT !.pc = pc]

\* An async handler that throws outside any try block: its promise is
\* rejected and nothing answers the request.
Crash(q) == [q EXCEPT !.pc = "crashed"]

Ended(q) == q.pc \in {"done", "crashed"}

\* What a request notes when it calls the session cache.
AtCache(q) ==
  [q EXCEPT !.cacheAt = now, !.cacheRevoked = (q.token \in revoked)]

FreeSlots == {r \in Slots : reqs[r].op = "idle"}

\* A request arrives and runs to q: to its end, or to a wait in the lowest
\* free slot.
Begin(q) ==
  IF Ended(q)
    THEN UNCHANGED reqs
    ELSE /\ FreeSlots # {}
         /\ reqs' = [reqs EXCEPT ![CHOOSE r \in FreeSlots :
                                     \A x \in FreeSlots : r <= x] = q]

\* The request of slot r runs on to q: to its end, which frees the slot, or
\* to its next wait.
Continue(r, q) == reqs' = [reqs EXCEPT ![r] = IF Ended(q) THEN Idle ELSE q]

\* The requests of handler op that wait at pc.
Waiting(op, pc) == {r \in Slots : reqs[r].op = op /\ reqs[r].pc = pc}

\* Users inserted or about to be, tokens generated, files inserted or about
\* to be: what the bounds of the model count.
UsersMade == Len(users) + Cardinality(Waiting("postNew", "createUser"))

TokensMade ==
  Cardinality(DOMAIN issued) + Cardinality(Waiting("getConnect", "set"))

FilesMade ==
  Len(files) + Cardinality(Waiting("postUpload", "createFolder"))
             + Cardinality(Waiting("postUpload", "getFile"))
             + Cardinality(Waiting("postUpload", "createFile"))

Init ==
  /\ dbState = "connecting"
  /\ users = <<>>
  /\ files = <<>>
  /\ sessions = <<>>
  /\ now = 0
  /\ uuids = 0
  /\ fsRoot = FALSE
  /\ blobs = <<>>
  /\ writes = {}
  /\ reqs = [r \in Slots |-> Idle]
  /\ issued = <<>>
  /\ revoked = {}

(***************************************************************************)
(* DBClient.constructor: MongoClient.connect calls back once, with a       *)
(* client or with an error.                                                *)
(***************************************************************************)
DbConnect ==
  /\ dbState = "connecting"
  /\ dbState' \in {"connected", "failed"}
  /\ UNCHANGED <<users, files, sessions, now, uuids, fsRoot, blobs, writes,
                 reqs, issued, revoked>>

(***************************************************************************)
(* UserController.postNew                                                  *)
(***************************************************************************)
\* A postNew without the lookup of lines 56-60: every complete body goes on
\* to createUser.
PostNewEndNoLookup(email, password) ==
  LET q == [Idle EXCEPT !.op = "postNew", !.email = email, !.password = password]
  IN IF Falsy(email) THEN Respond(q, 400, Error("Missing email"))
     ELSE IF Falsy(password) THEN Respond(q, 400, Error("Missing password"))
     ELSE IF ~UsersCollectionReady THEN Crash(q)
     ELSE At(Call(q, "db.createUser"), "createUser")

\* Lines 40-61: the checks, the call of getUser and what follows it.
PostNewEnd(email, password) ==
  LET q == [Idle EXCEPT !.op = "postNew", !.email = email, !.password = password]
      user == GetUser(email)
  IN IF Falsy(email) THEN Respond(q, 400, Error("Missing email"))
     ELSE IF Falsy(password) THEN Respond(q, 400, Error("Missing password"))
     ELSE IF ~UsersCollectionReady THEN Crash(q)
     ELSE IF ~IsNull(user)
       THEN Respond(Call(q, "db.getUser"), 400, Error("Already exist"))
     ELSE At(Call(Call(q, "db.getUser"), "db.createUser"), "createUser")

PostNew(email, password) ==
  /\ ~Ended(PostNewEnd(email, password)) => UsersMade < MaxUsers
  /\ Begin(PostNewEnd(email, password))
  /\ UNCHANGED <<dbState, users, files, sessions, now, uuids, fsRoot, blobs,
                 writes, issued, revoked>>

\* Lines 62-66: createUser returns and the response is sent.
PostNewCreateUserEnd(q) ==
  Respond(q, 200, [id |-> CreateUser(q.email, q.password)._id, email |-> q.email])

\* A createUser that deletes the documents of the email before it
\* inserts.
PostNewCreateUserReplacing(r) ==
  /\ reqs[r].op = "postNew" /\ reqs[r].pc = "createUser"
  /\ users' = Append(SelectSeq(users, LAMBDA u : u.email # reqs[r].email),
                     CreateUser(reqs[r].email, reqs[r].password))
  /\ Continue(r, PostNewCreateUserEnd(reqs[r]))
  /\ UNCHANGED <<dbState, files, sessions, now, uuids, fsRoot, blobs, writes,
                 issued, revoked>>

PostNewCreateUser(r) ==
  /\ reqs[r].op = "postNew" /\ reqs[r].pc = "createUser"
  /\ users' = Append(users, CreateUser(reqs[r].email, reqs[r].password))
  /\ Continue(r, PostNewCreateUserEnd(reqs[r]))
  /\ UNCHANGED <<dbState, files, sessions, now, uuids, fsRoot, blobs, writes,
                 issued, revoked>>

(***************************************************************************)
(* AuthController.getConnect                                               *)
(***************************************************************************)
\* A test of line 45 that looks at the user only.
ValidCredentialsAnyPassword(user, password) == ~IsNull(user)

\* The test of line 45: the credentials are those of the user found.
ValidCredentials(user, password) ==
  ~IsNull(user) /\ user.password = SHA1(password)

\* Lines 35-56: the header, the call of getUser, the test, the token.
GetConnectEnd(authorization) ==
  LET q == [Idle EXCEPT !.op = "getConnect", !.authorization = authorization]
      authorizationHeader == GetAuthorization(authorization)
      credentials == GetCredentials(authorizationHeader.value)
      q1 == Call([q EXCEPT !.email = credentials.value[1],
                           !.password = credentials.value[2]], "db.getUser")
      user == GetUser(q1.email)
  IN IF authorizationHeader.error # ""
       THEN Respond(q, 400, Error(authorizationHeader.error))
     ELSE IF credentials.error # ""
       THEN Respond(q, 400, Error(credentials.error))
     ELSE IF ~UsersCollectionReady
       THEN Respond(q, 400, Error(TypeErrorMessage))
     ELSE IF ~ValidCredentials(user, q1.password)
       THEN Respond(q1, 401, Error("Unauthorized"))
     ELSE At(Call([q1 EXCEPT !.user = user, !.newToken = v4(uuids + 1)],
                  "redis.set"), "set")

GetConnect(authorization) ==
  /\ ~Ended(GetConnectEnd(authorization)) => TokensMade < MaxTokens
  /\ uuids' = IF Ended(GetConnectEnd(authorization)) THEN uuids ELSE uuids + 1
  /\ Begin(GetConnectEnd(authorization))
  /\ UNCHANGED <<dbState, users, files, sessions, now, fsRoot, blobs, writes,
                 issued, revoked>>

\* Lines 56-58: SETEX is done and the token is sent.
GetConnectSetEnd(q) == Respond(q, 200, [token |-> q.newToken])

\* A line 56 that gives the duration in milliseconds.
SessionSetMilliseconds(q) ==
  RedisSet(AuthKey(q.newToken), q.user.email, TTL * 1000)

\* A line 56 that ends the earlier sessions of the same user.
SessionSetSingleSession(q) ==
  [k \in {x \in DOMAIN sessions : sessions[x].value # q.user.email}
            \cup {AuthKey(q.newToken)} |->
     IF k = AuthKey(q.newToken)
       THEN [value |-> q.user.email, expiresAt |-> now + TTL]
       ELSE sessions[k]]

\* A line 56 that stores the id of the user, not the email.
SessionSetUserId(q) == RedisSet(AuthKey(q.newToken), q.user._id, TTL)

\* The session that line 56 stores for the request.
SessionSet(q) == RedisSet(AuthKey(q.newToken), q.user.email, TTL)

GetConnectSet(r) ==
  /\ reqs[r].op = "getConnect" /\ reqs[r].pc = "set"
  /\ sessions' = SessionSet(reqs[r])
  /\ issued' = [t \in DOMAIN issued \cup {reqs[r].newToken} |->
                  IF t = reqs[r].newToken
                    THEN [userId |-> reqs[r].user._id,
                          email |-> reqs[r].user.email, at |-> now]
                    ELSE issued[t]]
  /\ Continue(r, GetConnectSetEnd(reqs[r]))
  /\ UNCHANGED <<dbState, users, files, now, uuids, fsRoot, blobs, writes,
                 revoked>>

(***************************************************************************)
(* AuthController.getDisconnect                                            *)
(***************************************************************************)
GetDisconnectEnd(token) ==
  LET q0 == [Idle EXCEPT !.op = "getDisconnect", !.token = token]
      q == Call(AtCache(q0), "redis.del")
      result == RedisDel(AuthKey(token))
  IN IF Falsy(token) THEN Respond(q0, 400, Error("Missing token"))
     ELSE IF result = 0 THEN Respond(q, 401, Error("Unauthorized"))
     ELSE Respond(q, 204, NoBody)

\* A line 95 that deletes the key without the "auth_" prefix.
SessionsAfterDisconnectNoPrefix(token) ==
  IF Falsy(token) THEN sessions ELSE RedisAfterDel(token)

\* The store after the request: line 95 is reached with a token.
SessionsAfterDisconnect(token) ==
  IF Falsy(token) THEN sessions ELSE RedisAfterDel(AuthKey(token))

GetDisconnect(token) ==
  /\ Begin(GetDisconnectEnd(token))
  /\ sessions' = SessionsAfterDisconnect(token)
  /\ revoked' = IF GetDisconnectEnd(token).status = 204
                  THEN revoked \cup {token} ELSE revoked
  /\ UNCHANGED <<dbState, users, files, now, uuids, fsRoot, blobs, writes,
                 issued>>

(***************************************************************************)
(* utils/auth.js getUserFromToken and the same steps in                    *)
(* UserController.getMe: the token, the session, then the user.            *)
(***************************************************************************)
\* A getUserFromToken that asks the cache before it looks at the token.
ResolveCacheFirst(q0, inTry) ==
  LET q == Call(AtCache(q0), "redis.get")
      email == RedisGet(AuthKey(q0.token))
  IN IF Falsy(email) THEN Respond(q, 401, Error("Unauthorized"))
     ELSE IF ~UsersCollectionReady
       THEN (IF inTry THEN Respond(q, 400, Error(TypeErrorMessage)) ELSE Crash(q))
     ELSE At(Call([q EXCEPT !.email = email], "db.getUser"), "getUser")

\* A handler whose catch answers 400 to every error, Unauthorized included.
ResolveCatchAll(q0, inTry) ==
  LET q == Call(AtCache(q0), "redis.get")
      email == RedisGet(AuthKey(q0.token))
  IN IF Falsy(q0.token) THEN Respond(q0, 400, Error("Missing token"))
     ELSE IF Falsy(email) THEN Respond(q, 400, Error("Unauthorized"))
     ELSE IF ~UsersCollectionReady
       THEN (IF inTry THEN Respond(q, 400, Error(TypeErrorMessage)) ELSE Crash(q))
     ELSE At(Call([q EXCEPT !.email = email], "db.getUser"), "getUser")

\* The request after the call of redisClient.get for its token, at pc
\* "getUser" when the session holds an email.  A handler whose getUser
\* throws in a try block answers 400; outside one it answers nothing.
Resolve(q0, inTry) ==
  LET q == Call(AtCache(q0), "redis.get")
      email == RedisGet(AuthKey(q0.token))
  IN IF Falsy(q0.token) THEN Respond(q0, 400, Error("Missing token"))
     ELSE IF Falsy(email) THEN Respond(q, 401, Error("Unauthorized"))
     ELSE IF ~UsersCollectionReady
       THEN (IF inTry THEN Respond(q, 400, Error(TypeErrorMessage)) ELSE Crash(q))
     ELSE At(Call([q EXCEPT !.email = email], "db.getUser"), "getUser")

\* A cache whose read consumes the key (GETDEL).
SessionsAfterResolveConsumed(token) ==
  IF Falsy(token) THEN sessions ELSE RedisAfterDel(AuthKey(token))

\* A cache whose read renews the time to live of the key (GETEX).
SessionsAfterResolveRenewed(token) ==
  IF ~Falsy(token) /\ Live(AuthKey(token))
    THEN RedisSet(AuthKey(token), sessions[AuthKey(token)].value, TTL)
    ELSE sessions

\* The store after redisClient.get: GET leaves every key as it is.
SessionsAfterResolve(token) == sessions

(***************************************************************************)
(* UserController.getMe                                                    *)
(***************************************************************************)
GetMeEnd(token) == Resolve([Idle EXCEPT !.op = "getMe", !.token = token], FALSE)

GetMe(token) ==
  /\ Begin(GetMeEnd(token))
  /\ sessions' = SessionsAfterResolve(token)
  /\ UNCHANGED <<dbState, users, files, now, uuids, fsRoot, blobs, writes,
                 issued, revoked>>

\* A getMe that looks the user up by the token, not by the session's email.
GetMeGetUserEndByToken(q) ==
  LET user == GetUser(q.token)
  IN IF IsNull(user) THEN Respond(q, 401, Error("Unauthorized"))
     ELSE Respond(q, 200, [id |-> user._id, email |-> user.email])

GetMeGetUserEnd(q) ==
  LET user == GetUser(q.email)
  IN IF IsNull(user) THEN Respond(q, 401, Error("Unauthorized"))
     ELSE Respond(q, 200, [id |-> user._id, email |-> user.email])

GetMeGetUser(r) ==
  /\ reqs[r].op = "getMe" /\ reqs[r].pc = "getUser"
  /\ Continue(r, GetMeGetUserEnd(reqs[r]))
  /\ UNCHANGED <<dbState, users, files, sessions, now, uuids, fsRoot, blobs,
                 writes, issued, revoked>>

(***************************************************************************)
(* Time.  The clock moves by one second less than the time to live, then   *)
(* by one second, and so on: a session made at time 0 is seen one second   *)
(* before its expiry and at its expiry.                                    *)
(***************************************************************************)
\* How many steps the clock has made to reach t.
Ticks(t) == 2 * (t \div TTL) + (IF t % TTL = 0 THEN 0 ELSE 1)

TickStep(t) == IF Ticks(t) % 2 = 0 THEN TTL - 1 ELSE 1

Tick ==
  /\ Ticks(now) < MaxTicks
  /\ now' = now + TickStep(now)
  /\ sessions' = RedisAt(now + TickStep(now))
  /\ UNCHANGED <<dbState, users, files, uuids, fsRoot, blobs, writes, reqs,
                 issued, revoked>>

(***************************************************************************)
(* FileController.postUpload                                               *)
(***************************************************************************)
\* req.body.parentId || 0 and req.body.isPublic || false
ParentIdOf(body) == IF Falsy(body.parentId) THEN Number(0) ELSE body.parentId

IsPublicOf(body) == IF Falsy(body.isPublic) THEN false ELSE body.isPublic

\* The checks of lines 46-54 with the type looked at before the name.
ValidateUploadTypeFirst(body) ==
  IF Falsy(body.type)
     \/ (body.type # FOLDER /\ body.type # FILE /\ body.type # IMAGE)
    THEN "Missing type"
  ELSE IF Falsy(body.name) THEN "Missing name"
  ELSE IF (body.type = FILE \/ body.type = IMAGE) /\ Falsy(body.data)
    THEN "Missing data"
  ELSE ""

\* Lines 46-54: the message of the first check that fails, "" if none does.
ValidateUpload(body) ==
  IF Falsy(body.name) THEN "Missing name"
  ELSE IF Falsy(body.type)
          \/ (body.type # FOLDER /\ body.type # FILE /\ body.type # IMAGE)
    THEN "Missing type"
  ELSE IF (body.type = FILE \/ body.type = IMAGE) /\ Falsy(body.data)
    THEN "Missing data"
  ELSE ""

\* The JSON of lines 62-69 and 102-109.
UploadJson(q, insertedId) ==
  [id |-> insertedId, userId |-> q.user._id, name |-> q.body.name,
   type |-> q.body.type, isPublic |-> IsPublicOf(q.body),
   parentId |-> ParentIdOf(q.body)]

\* Lines 41-44: the token and the session.
\* A postUpload that checks the body before it looks at the token.
PostUploadEndBodyFirst(token, body) ==
  LET q == [Idle EXCEPT !.op = "postUpload", !.token = token, !.body = body]
  IN IF ValidateUpload(body) # "" THEN Respond(q, 400, Error(ValidateUpload(body)))
     ELSE Resolve(q, TRUE)

PostUploadEnd(token, body) ==
  Resolve([Idle EXCEPT !.op = "postUpload", !.token = token, !.body = body], TRUE)

PostUpload(token, body) ==
  /\ Begin(PostUploadEnd(token, body))
  /\ sessions' = SessionsAfterResolve(token)
  /\ UNCHANGED <<dbState, users, files, now, uuids, fsRoot, blobs, writes,
                 issued, revoked>>

\* Lines 84-101: the path of the blob, then the call of createFile.
ToCreateFile(q) ==
  At(Call([q EXCEPT !.path = FOLDER_PATH \o <<47>> \o v4(uuids + 1)],
          "db.createFile"), "createFile")

\* Lines 87-98 run for a folder as well.
WriteBlobForFolder(q) ==
  IF q.pc \in {"createFile", "createFolder"}
    THEN /\ uuids' = uuids + 1
         /\ fsRoot' = TRUE
         /\ writes' = writes \cup {[path |-> FOLDER_PATH, data |-> <<>>]}
    ELSE UNCHANGED <<uuids, fsRoot, writes>>

\* Lines 87-98, for a request that ToCreateFile has left at "createFile":
\* the directory is made and fs.writeFile is issued and not awaited.
WriteBlob(q) ==
  IF q.pc = "createFile"
    THEN /\ uuids' = uuids + 1
         /\ fsRoot' = TRUE
         /\ writes' = writes \cup
              {[path |-> q.path, data |-> Utf8ToString(Base64Decode(q.body.data))]}
    ELSE UNCHANGED <<uuids, fsRoot, writes>>

\* Lines 44-61 and 74-101: the user, the checks of the body, then the call
\* of createFile for a folder, of getFile for a parent, or the blob.
PostUploadGetUserEnd(q0) ==
  LET user == GetUser(q0.email)
      q == [q0 EXCEPT !.user = user]
  IN IF IsNull(user) THEN Respond(q, 401, Error("Unauthorized"))
     ELSE IF ValidateUpload(q.body) # ""
       THEN Respond(q, 400, Error(ValidateUpload(q.body)))
     ELSE IF q.body.type = FOLDER
       THEN At(Call(q, "db.createFile"), "createFolder")
     ELSE IF ParentIdOf(q.body) # Number(0)
       THEN At(Call(q, "db.getFile"), "getFile")
     ELSE ToCreateFile(q)

PostUploadGetUser(r) ==
  /\ reqs[r].op = "postUpload" /\ reqs[r].pc = "getUser"
  /\ ~Ended(PostUploadGetUserEnd(reqs[r])) => FilesMade < MaxFiles
  /\ Continue(r, PostUploadGetUserEnd(reqs[r]))
  /\ WriteBlob(PostUploadGetUserEnd(reqs[r]))
  /\ UNCHANGED <<dbState, users, files, sessions, now, blobs, issued, revoked>>

\* A line 61 that hands createFile a path.
FolderOfWithPath(q) ==
  CreateFile(q.user._id, q.body.name, q.body.type, ParentIdOf(q.body),
             IsPublicOf(q.body), FOLDER_PATH)

\* Lines 61-70: the folder is inserted and the response is sent.
FolderOf(q) ==
  CreateFile(q.user._id, q.body.name, q.body.type, ParentIdOf(q.body),
             IsPublicOf(q.body), undefined)

PostUploadCreateFolderEnd(q) == Respond(q, 201, UploadJson(q, FolderOf(q)._id))

\* A createFile that deletes the documents of the user with the name and
\* the parentId of the folder before it inserts.
PostUploadCreateFolderReplacing(r) ==
  /\ reqs[r].op = "postUpload" /\ reqs[r].pc = "createFolder"
  /\ files' = Append(SelectSeq(files, LAMBDA f :
                                 ~(/\ f.userId = FolderOf(reqs[r]).userId
                                   /\ f.name = FolderOf(reqs[r]).name
                                   /\ f.parentId = FolderOf(reqs[r]).parentId)),
                     FolderOf(reqs[r]))
  /\ Continue(r, PostUploadCreateFolderEnd(reqs[r]))
  /\ UNCHANGED <<dbState, users, sessions, now, uuids, fsRoot, blobs, writes,
                 issued, revoked>>

PostUploadCreateFolder(r) ==
  /\ reqs[r].op = "postUpload" /\ reqs[r].pc = "createFolder"
  /\ files' = Append(files, FolderOf(reqs[r]))
  /\ Continue(r, PostUploadCreateFolderEnd(reqs[r]))
  /\ UNCHANGED <<dbState, users, sessions, now, uuids, fsRoot, blobs, writes,
                 issued, revoked>>

\* Lines 75-101: the parent, then the blob.
PostUploadGetFileEnd(q) ==
  LET parent == GetFile(ParentIdOf(q.body), q.user._id)
  IN IF IsNull(parent) THEN Respond(q, 400, Error("Parent not found"))
     ELSE IF parent.type # FOLDER
       THEN Respond(q, 400, Error("Parent is not a folder"))
     ELSE ToCreateFile(q)

PostUploadGetFile(r) ==
  /\ reqs[r].op = "postUpload" /\ reqs[r].pc = "getFile"
  /\ Continue(r, PostUploadGetFileEnd(reqs[r]))
  /\ WriteBlob(PostUploadGetFileEnd(reqs[r]))
  /\ UNCHANGED <<dbState, users, files, sessions, now, blobs, issued, revoked>>

\* Lines 101-109: the file is inserted and the response is sent.
FileOf(q) ==
  CreateFile(q.user._id, q.body.name, q.body.type, ParentIdOf(q.body),
             IsPublicOf(q.body), q.path)

PostUploadCreateFileEnd(q) == Respond(q, 201, UploadJson(q, FileOf(q)._id))

PostUploadCreateFile(r) ==
  /\ reqs[r].op = "postUpload" /\ reqs[r].pc = "createFile"
  /\ files' = Append(files, FileOf(reqs[r]))
  /\ Continue(r, PostUploadCreateFileEnd(reqs[r]))
  /\ UNCHANGED <<dbState, users, sessions, now, uuids, fsRoot, blobs, writes,
                 issued, revoked>>

\* A catch that takes back the blob of an insert that has failed.
PostUploadCreateFileRejectsWithUnlink(r) ==
  /\ reqs[r].op = "postUpload" /\ reqs[r].pc = "createFile"
  /\ uuids <= MaxFiles
  /\ Continue(r, Respond(reqs[r], 400, Error("Topology was destroyed")))
  /\ writes' = {w \in writes : w.path # reqs[r].path}
  /\ blobs' = [p \in DOMAIN blobs \ {reqs[r].path} |-> blobs[p]]
  /\ UNCHANGED <<dbState, users, files, sessions, now, uuids, fsRoot, issued,
                 revoked>>

\* Lines 101 and 110-119: insertOne rejects because the server cannot be
\* reached, and the catch answers 400 with the message of the driver's
\* error.  Nothing is inserted, and the blob stays as it is.  The guard on
\* uuids bounds the number of inserts that fail.
PostUploadCreateFileRejects(r) ==
  /\ reqs[r].op = "postUpload" /\ reqs[r].pc = "createFile"
  /\ uuids <= MaxFiles
  /\ Continue(r, Respond(reqs[r], 400, Error("Topology was destroyed")))
  /\ UNCHANGED <<dbState, users, files, sessions, now, uuids, fsRoot, blobs,
                 writes, issued, revoked>>

(***************************************************************************)
(* fs.writeFile(path, decodedData, callback): the write ends later, with   *)
(* the file written or with an error that the callback only logs.          *)
(***************************************************************************)
FsWriteFile(w) ==
  /\ w \in writes
  /\ writes' = writes \ {w}
  /\ blobs' = [p \in DOMAIN blobs \cup {w.path} |->
                 IF p = w.path THEN Utf8Encode(w.data) ELSE blobs[p]]
  /\ UNCHANGED <<dbState, users, files, sessions, now, uuids, fsRoot, reqs,
                 issued, revoked>>

FsWriteFileError(w) ==
  /\ w \in writes
  /\ writes' = writes \ {w}
  /\ UNCHANGED <<dbState, users, files, sessions, now, uuids, fsRoot, blobs,
                 reqs, issued, revoked>>

(***************************************************************************)
(* FileController.getShow.  The request holds req.params as its body.      *)
(***************************************************************************)
\* A JSON that carries every field of the document but userId.
FileJsonOfAllFields(document) ==
  [id |-> document._id, userId |-> document._id, name |-> document.name,
   type |-> document.type, isPublic |-> document.isPublic,
   parentId |-> document.parentId,
   localPath |-> IF "localPath" \in DOMAIN document THEN document.localPath
                 ELSE undefined]

\* The JSON of lines 161-168 and 218-225.
FileJson(document) ==
  [id |-> document._id, userId |-> document._id, name |-> document.name,
   type |-> document.type, isPublic |-> document.isPublic,
   parentId |-> document.parentId]

\* Lines 149-151: the token and the session.
GetShowEnd(token, id) ==
  Resolve([Idle EXCEPT !.op = "getShow", !.token = token, !.body = [id |-> id]],
          TRUE)

GetShow(token, id) ==
  /\ Begin(GetShowEnd(token, id))
  /\ sessions' = SessionsAfterResolve(token)
  /\ UNCHANGED <<dbState, users, files, now, uuids, fsRoot, blobs, writes,
                 issued, revoked>>

\* Lines 151-155: the user, then the call of getFile.
GetShowGetUserEnd(q0) ==
  LET user == GetUser(q0.email)
      q == [q0 EXCEPT !.user = user]
  IN IF IsNull(user) THEN Respond(q, 401, Error("Unauthorized"))
     ELSE At(Call(q, "db.getFile"), "getFile")

GetShowGetUser(r) ==
  /\ reqs[r].op = "getShow" /\ reqs[r].pc = "getUser"
  /\ Continue(r, GetShowGetUserEnd(reqs[r]))
  /\ UNCHANGED <<dbState, users, files, sessions, now, uuids, fsRoot, blobs,
                 writes, issued, revoked>>

\* Lines 155-168: the document, or 404.
GetShowGetFileEnd(q) ==
  LET document == GetFile(q.body.id, q.user._id)
  IN IF IsNull(document) THEN Respond(q, 404, Error("Not found"))
     ELSE Respond(q, 200, FileJson(document))

GetShowGetFile(r) ==
  /\ reqs[r].op = "getShow" /\ reqs[r].pc = "getFile"
  /\ Continue(r, GetShowGetFileEnd(reqs[r]))
  /\ UNCHANGED <<dbState, users, files, sessions, now, uuids, fsRoot, blobs,
                 writes, issued, revoked>>

(***************************************************************************)
(* FileController.getIndex.  The request holds req.query as its body.      *)
(***************************************************************************)
PageStep == 20     \* req.query.page * 20

PageLimit == 20    \* getFiles(parentId, user._id, page, 20)

\* A string of decimal digits, and the number it converts to.
IsDigits(s) ==
  /\ s # <<>>
  /\ \A i \in 1..Len(s) : s[i] >= 48 /\ s[i] <= 57

RECURSIVE DigitsValue(_)
DigitsValue(s) ==
  IF s = <<>> THEN 0
  ELSE 10 * DigitsValue(SubSeq(s, 1, Len(s) - 1)) + (s[Len(s)] - 48)

\* req.query.parentId || 0
QueryParentId(query) ==
  IF Falsy(query.parentId) THEN Number(0) ELSE query.parentId

\* A page that is used as the offset itself.
PageOffsetUnscaled(query) ==
  IF IsDigits(query.page) THEN DigitsValue(query.page)
  ELSE IF Len(query.page) > 1 /\ query.page[1] = 45 /\ IsDigits(Tail(query.page))
    THEN 0 - DigitsValue(Tail(query.page))
  ELSE 0

\* req.query.page * 20 || 0: the digits of a page, with a minus sign before
\* them or without, convert to their number; a page that is no number
\* gives NaN, and NaN and 0 give 0.
PageOffset(query) ==
  IF IsDigits(query.page) THEN DigitsValue(query.page) * PageStep
  ELSE IF Len(query.page) > 1 /\ query.page[1] = 45 /\ IsDigits(Tail(query.page))
    THEN 0 - DigitsValue(Tail(query.page)) * PageStep
  ELSE 0

\* A getFiles that leaves the owner out of the filter.
GetFilesOfAnyOwner(parentId, userId, offset, limit) ==
  LET hits == SelectSeq(files, LAMBDA f : f.parentId = parentId)
  IN SubSeq(hits, offset + 1,
            IF offset + limit < Len(hits) THEN offset + limit ELSE Len(hits))

\* A getFiles whose cursor skips one more document while every slot is
\* taken.
GetFilesWhenBusy(parentId, userId, offset, limit) ==
  LET hits == SelectSeq(files, LAMBDA f : f.parentId = parentId /\ f.userId = userId)
      skip == IF FreeSlots = {} THEN offset + 1 ELSE offset
  IN SubSeq(hits, skip + 1,
            IF skip + limit < Len(hits) THEN skip + limit ELSE Len(hits))

\* dbClient.getFiles(parentId, userId, offset, limit):
\* filesCollection.find({ parentId, userId }).skip(offset).limit(limit), in
\* the order of insertion.
GetFiles(parentId, userId, offset, limit) ==
  LET hits == SelectSeq(files, LAMBDA f : f.parentId = parentId /\ f.userId = userId)
  IN SubSeq(hits, offset + 1,
            IF offset + limit < Len(hits) THEN offset + limit ELSE Len(hits))

\* Lines 207-209: the token and the session.
GetIndexEnd(token, query) ==
  Resolve([Idle EXCEPT !.op = "getIndex", !.token = token, !.body = query], TRUE)

GetIndex(token, query) ==
  /\ Begin(GetIndexEnd(token, query))
  /\ sessions' = SessionsAfterResolve(token)
  /\ UNCHANGED <<dbState, users, files, now, uuids, fsRoot, blobs, writes,
                 issued, revoked>>

\* Lines 209-215: the user, then the call of getFiles.
GetIndexGetUserEnd(q0) ==
  LET user == GetUser(q0.email)
      q == [q0 EXCEPT !.user = user]
  IN IF IsNull(user) THEN Respond(q, 401, Error("Unauthorized"))
     ELSE At(Call(q, "db.getFiles"), "getFiles")

GetIndexGetUser(r) ==
  /\ reqs[r].op = "getIndex" /\ reqs[r].pc = "getUser"
  /\ Continue(r, GetIndexGetUserEnd(reqs[r]))
  /\ UNCHANGED <<dbState, users, files, sessions, now, uuids, fsRoot, blobs,
                 writes, issued, revoked>>

\* The documents that line 215 is given.
ListedFiles(q) ==
  GetFiles(QueryParentId(q.body), q.user._id, PageOffset(q.body), PageLimit)

\* Lines 215-238: the documents as JSON, the array being the field files of
\* the json of the request.  The server refuses a find whose skip is
\* negative, toArray rejects, and the catch of line 229 answers 400.
GetIndexGetFilesEnd(q) ==
  LET documents == ListedFiles(q)
  IN IF PageOffset(q.body) < 0
       THEN Respond(q, 400, Error("Skip value must be non-negative"))
       ELSE Respond(q, 200,
                    [files |-> [i \in 1..Len(documents) |-> FileJson(documents[i])]])

GetIndexGetFiles(r) ==
  /\ reqs[r].op = "getIndex" /\ reqs[r].pc = "getFiles"
  /\ Continue(r, GetIndexGetFilesEnd(reqs[r]))
  /\ UNCHANGED <<dbState, users, files, sessions, now, uuids, fsRoot, blobs,
                 writes, issued, revoked>>

(***************************************************************************)
(* The requests that clients send.                                         *)
(***************************************************************************)
EmailA == <<97>>       \* "a"

EmailB == <<98>>       \* "b"

PasswordP == <<112>>   \* "p"

PasswordQ == <<113>>   \* "q"

Basic(base64) == BasicPrefix \o base64

\* The bodies of POST /users.
Registrations ==
  {<<undefined, PasswordP>>, <<EmailA, undefined>>, <<EmailA, PasswordP>>,
   <<EmailB, PasswordP>>}

HeaderAP == Basic(<<89, 84, 112, 119>>)     \* "Basic YTpw", "a:p"

HeaderAQ == Basic(<<89, 84, 112, 120>>)     \* "Basic YTpx", "a:q"

HeaderBP == Basic(<<89, 106, 112, 119>>)    \* "Basic Yjpw", "b:p"

\* The Authorization headers of GET /connect.
Authorizations == {undefined, HeaderAP, HeaderAQ, HeaderBP}

\* The X-Token headers: none, empty, and every string uuid.v4() may return
\* in the run, whether it was returned yet or not.
Tokens == {undefined, <<>>} \cup {v4(n) : n \in 1..MaxTokens}

NameN == <<110>>       \* "n"

Spreadsheet == <<115, 112, 114, 101, 97, 100, 115, 104, 101, 101, 116>>

DataHi == <<97, 71, 107, 61>>    \* "aGk=", the base64 of "hi"

DataFF == <<47, 119, 61, 61>>    \* "/w==", the base64 of the byte 0xFF

\* The id of a document as a client writes it in a body.
ParentHex == ToHexString(ObjectId(2))

Body(name, type, data, parentId) ==
  [name |-> name, type |-> type, data |-> data, parentId |-> parentId,
   isPublic |-> undefined]

\* The bodies of POST /files: without a name, with an empty one, without a
\* type, with one that is not allowed, a file and an image without data, a
\* folder, a file, and a file and a folder with a parent.
Bodies ==
  {Body(undefined, undefined, undefined, ParentHex),
   Body(<<>>, Spreadsheet, undefined, undefined),
   Body(NameN, undefined, undefined, ParentHex),
   Body(NameN, Spreadsheet, DataHi, undefined),
   Body(NameN, FILE, undefined, ParentHex),
   Body(NameN, IMAGE, <<>>, undefined),
   Body(NameN, FOLDER, undefined, undefined),
   Body(NameN, FILE, DataHi, undefined),
   Body(NameN, FILE, DataHi, ParentHex),
   Body(NameN, FOLDER, undefined, ParentHex)}

\* The bodies of POST /files that pass the checks of lines 46-54: a folder
\* and an image at the root, a file whose bytes are not UTF-8, and a folder
\* and a file with a parent.
Uploads ==
  {Body(NameN, FOLDER, undefined, undefined),
   Body(NameN, IMAGE, DataHi, undefined),
   Body(NameN, FILE, DataFF, undefined),
   Body(NameN, FOLDER, undefined, ParentHex),
   Body(NameN, FILE, DataHi, ParentHex)}

(***************************************************************************)
(* The session lifecycle: registration, connect, disconnect, getMe and     *)
(* the clock.                                                              *)
(***************************************************************************)
Next ==
  \/ DbConnect
  \/ Tick
  \/ \E x \in Registrations : PostNew(x[1], x[2])
  \/ \E authorization \in Authorizations : GetConnect(authorization)
  \/ \E token \in Tokens : GetDisconnect(token)
  \/ \E token \in Tokens : GetMe(token)
  \/ \E r \in Slots :
       \/ PostNewCreateUser(r)
       \/ GetConnectSet(r)
       \/ GetMeGetUser(r)

Spec == Init /\ [][Next]_vars

(***************************************************************************)
(* Uploads: one user registers once and connects once, and uploads with    *)
(* the bodies above; the writes of the blobs end later.                    *)
(***************************************************************************)
NextUpload ==
  \/ DbConnect
  \/ UsersMade = 0 /\ PostNew(EmailA, PasswordP)
  \/ TokensMade = 0 /\ GetConnect(HeaderAP)
  \/ \E token \in Tokens, body \in Bodies : PostUpload(token, body)
  \/ \E r \in Slots :
       \/ PostNewCreateUser(r)
       \/ GetConnectSet(r)
       \/ PostUploadGetUser(r)
       \/ PostUploadCreateFolder(r)
       \/ PostUploadGetFile(r)
       \/ PostUploadCreateFile(r)
  \/ \E w \in writes : FsWriteFile(w)
  \/ \E w \in writes : FsWriteFileError(w)

SpecUpload == Init /\ [][NextUpload]_vars

(***************************************************************************)
(* What uploads store: one user registers once and connects once, and      *)
(* uploads with the bodies that pass the checks.                           *)
(***************************************************************************)
NextStore ==
  \/ DbConnect
  \/ UsersMade = 0 /\ PostNew(EmailA, PasswordP)
  \/ TokensMade = 0 /\ GetConnect(HeaderAP)
  \/ \E body \in Uploads : PostUpload(v4(1), body)
  \/ \E r \in Slots :
       \/ PostNewCreateUser(r)
       \/ GetConnectSet(r)
       \/ PostUploadGetUser(r)
       \/ PostUploadCreateFolder(r)
       \/ PostUploadGetFile(r)
       \/ PostUploadCreateFile(r)
  \/ \E w \in writes : FsWriteFile(w)
  \/ \E w \in writes : FsWriteFileError(w)

SpecStore == Init /\ [][NextStore]_vars

\* Uploads of an image to the root over a metadata store whose insert can
\* fail.
NextBlob ==
  \/ DbConnect
  \/ UsersMade = 0 /\ PostNew(EmailA, PasswordP)
  \/ TokensMade = 0 /\ GetConnect(HeaderAP)
  \/ PostUpload(v4(1), Body(NameN, IMAGE, DataHi, undefined))
  \/ \E r \in Slots :
       \/ PostNewCreateUser(r)
       \/ GetConnectSet(r)
       \/ PostUploadGetUser(r)
       \/ PostUploadCreateFile(r)
       \/ PostUploadCreateFileRejects(r)
  \/ \E w \in writes : FsWriteFile(w)
  \/ \E w \in writes : FsWriteFileError(w)

SpecBlob == Init /\ [][NextBlob]_vars


(***************************************************************************)
(* Connects with the credentials of one registered user, whose password   *)
(* is drawn from the strings of "p" and ":".                               *)
(***************************************************************************)
MaxPassword == 3    \* characters of a password

RECURSIVE Strings(_, _)
Strings(alphabet, n) ==
  IF n = 0 THEN {<<>>}
  ELSE Strings(alphabet, n - 1)
         \cup {Append(x, c) : x \in Strings(alphabet, n - 1), c \in alphabet}

Emails == {<<>>, <<97>>, <<97, 64>>}             \* "", "a" and "a@"

Passwords == Strings({112, Colon}, MaxPassword)   \* of "p" and ":"

\* The character of a 6-bit value in the base64 alphabet.
Base64Char(n) ==
  IF n < 26 THEN 65 + n
  ELSE IF n < 52 THEN 71 + n
  ELSE IF n < 62 THEN n - 4
  ELSE IF n = 62 THEN 43
  ELSE 47

\* The base64 of a string of characters below 128, as a client writes it
\* into the header that decodeAuthorizationHeader reads.
RECURSIVE Base64Encode(_)
Base64Encode(b) ==
  IF b = <<>> THEN <<>>
  ELSE IF Len(b) = 1
    THEN <<Base64Char(b[1] \div 4), Base64Char((b[1] % 4) * 16), 61, 61>>
  ELSE IF Len(b) = 2
    THEN <<Base64Char(b[1] \div 4),
           Base64Char((b[1] % 4) * 16 + (b[2] \div 16)),
           Base64Char((b[2] % 16) * 4), 61>>
  ELSE <<Base64Char(b[1] \div 4),
         Base64Char((b[1] % 4) * 16 + (b[2] \div 16)),
         Base64Char((b[2] % 16) * 4 + (b[3] \div 64)),
         Base64Char(b[3] % 64)>> \o Base64Encode(SubSeq(b, 4, Len(b)))

\* The Authorization header of the email and the password.
HeaderOf(email, password) ==
  Basic(Base64Encode(email \o <<Colon>> \o password))

InitCredentials ==
  \E email \in Emails \ {<<>>}, password \in Passwords \ {<<>>} :
    /\ dbState = "connected"
    /\ users = <<[_id |-> ObjectId(1), email |-> email,
                  password |-> SHA1(password)]>>
    /\ files = <<>>
    /\ sessions = <<>>
    /\ now = 0
    /\ uuids = 0
    /\ fsRoot = FALSE
    /\ blobs = <<>>
    /\ writes = {}
    /\ reqs = [r \in Slots |-> Idle]
    /\ issued = <<>>
    /\ revoked = {}

NextCredentials ==
  \/ \E email \in Emails, password \in Passwords :
       GetConnect(HeaderOf(email, password))
  \/ \E token \in Tokens : GetDisconnect(token)
  \/ \E r \in Slots : GetConnectSet(r)

SpecCredentials == InitCredentials /\ [][NextCredentials]_vars

(***************************************************************************)
(* Browsing a store that earlier requests have filled: two users have      *)
(* registered and connected, then Stored(n, shape) has been uploaded.      *)
(***************************************************************************)
MaxListed == 42    \* documents that the earlier uploads have stored

Shapes == {1, 2, 3}

\* The users that POST /users has made of EmailA and EmailB.
StoredUsers ==
  <<[_id |-> ObjectId(1), email |-> EmailA, password |-> SHA1(PasswordP)],
    [_id |-> ObjectId(2), email |-> EmailB, password |-> SHA1(PasswordP)]>>

\* The folder of EmailA that is the first document of shape 3.
BrowseParent == ToHexString(ObjectId(3))

\* The document that the i-th upload has stored: in shape 1 images of
\* EmailA at the root, in shape 2 folders of EmailA and EmailB in turn at
\* the root, in shape 3 folders, every third one of EmailB and the others
\* of EmailA, every second one sent with the parentId BrowseParent.
StoredFile(i, shape) ==
  IF shape = 1
    THEN [_id |-> ObjectId(2 + i), userId |-> ObjectId(1), name |-> NameN,
          type |-> IMAGE, parentId |-> Number(0), isPublic |-> false,
          localPath |-> FOLDER_PATH \o <<47>> \o v4(2 + i)]
    ELSE [_id |-> ObjectId(2 + i),
          userId |-> IF (shape = 2 /\ i % 2 = 0) \/ (shape = 3 /\ i % 3 = 0)
                       THEN ObjectId(2) ELSE ObjectId(1),
          name |-> NameN, type |-> FOLDER, isPublic |-> false,
          parentId |-> IF shape = 3 /\ i % 2 = 0 THEN BrowseParent
                       ELSE Number(0)]

Stored(n, shape) == [i \in 1..n |-> StoredFile(i, shape)]

\* The blobs of the images of Stored(n, shape), written in full.
StoredBlobs(n, shape) ==
  [p \in {StoredFile(i, shape).localPath : i \in (IF shape = 1 THEN 1..n ELSE {})}
     |-> Utf8Encode(Utf8ToString(Base64Decode(DataHi)))]

InitBrowse ==
  \E n \in 0..MaxListed, shape \in Shapes :
    /\ dbState = "connected"
    /\ users = StoredUsers
    /\ files = Stored(n, shape)
    /\ sessions = [k \in {AuthKey(v4(1)), AuthKey(v4(2))} |->
                     [value |-> IF k = AuthKey(v4(1)) THEN EmailA ELSE EmailB,
                      expiresAt |-> TTL]]
    /\ now = 0
    /\ uuids = 2 + (IF shape = 1 THEN n ELSE 0)
    /\ fsRoot = (shape = 1 /\ n > 0)
    /\ blobs = StoredBlobs(n, shape)
    /\ writes = {}
    /\ reqs = [r \in Slots |-> Idle]
    /\ issued = [t \in {v4(1), v4(2)} |->
                   [userId |-> ObjectId(IF t = v4(1) THEN 1 ELSE 2),
                    email |-> IF t = v4(1) THEN EmailA ELSE EmailB,
                    at |-> 0]]
    /\ revoked = {}

BrowseTokens == {undefined, v4(1), v4(2), v4(3)}

\* req.params.id: the first two documents, and an id of no document.
AbsentId == <<122, 122>>    \* "zz"

ShowIds == {ToHexString(ObjectId(3)), ToHexString(ObjectId(4)), AbsentId}

Digit(n) == <<48 + n>>

\* req.query: no parentId, "0" or the folder; no page, "0", "1", "2", "x"
\* or "-1".
Queries ==
  {[parentId |-> p, page |-> g] :
     p \in {undefined, Digit(0), BrowseParent},
     g \in {undefined, Digit(0), Digit(1), Digit(2), <<120>>, <<45, 49>>}}

NextBrowse ==
  \/ FreeSlots = Slots /\ \E token \in BrowseTokens : GetMe(token)
  \/ FreeSlots = Slots /\ \E token \in BrowseTokens, id \in ShowIds :
       GetShow(token, id)
  \/ FreeSlots = Slots /\ \E token \in BrowseTokens, query \in Queries :
       GetIndex(token, query)
  \/ Len(files) < MaxFiles /\ \E token \in {v4(1), v4(2)} :
       PostUpload(token, Body(NameN, FOLDER, undefined, undefined))
  \/ FreeSlots = Slots /\ Len(files) < MaxFiles /\ writes = {}
       /\ \E token \in BrowseTokens \ {v4(2)}, body \in Bodies :
            PostUpload(token, body)
  \/ \E r \in Slots :
       \/ GetMeGetUser(r)
       \/ GetShowGetUser(r)
       \/ GetShowGetFile(r)
       \/ GetIndexGetUser(r)
       \/ GetIndexGetFiles(r)
       \/ PostUploadGetUser(r)
       \/ PostUploadCreateFolder(r)
       \/ PostUploadGetFile(r)
       \/ PostUploadCreateFile(r)
  \/ \E w \in writes : FsWriteFile(w)
  \/ \E w \in writes : FsWriteFileError(w)

SpecBrowse == InitBrowse /\ [][NextBrowse]_vars

(***************************************************************************)
(* Sessions side by side.  Two users are registered and each has connected *)
(* once at time 0; two more connects have passed getUser and wait for      *)
(* SETEX.  From there sessions are stored, deleted and left to expire.     *)
(***************************************************************************)
InitSessions ==
  \E first \in {HeaderAP, HeaderBP}, second \in {HeaderAP, HeaderBP} :
    /\ dbState = "connected"
    /\ users = StoredUsers
    /\ files = <<>>
    /\ sessions = [k \in {AuthKey(v4(1)), AuthKey(v4(2))} |->
                     [value |-> IF k = AuthKey(v4(1)) THEN EmailA ELSE EmailB,
                      expiresAt |-> TTL]]
    /\ now = 0
    /\ uuids = 4
    /\ fsRoot = FALSE
    /\ blobs = <<>>
    /\ writes = {}
    /\ reqs = [r \in Slots |->
                 [GetConnectEnd(IF r = 1 THEN first ELSE second)
                    EXCEPT !.newToken = v4(2 + r)]]
    /\ issued = [t \in {v4(1), v4(2)} |->
                   [userId |-> ObjectId(IF t = v4(1) THEN 1 ELSE 2),
                    email |-> IF t = v4(1) THEN EmailA ELSE EmailB,
                    at |-> 0]]
    /\ revoked = {}

NextSessions ==
  \/ \E r \in Slots : GetConnectSet(r)
  \/ \E token \in {undefined, <<>>} \cup {v4(n) : n \in 1..4} :
       GetDisconnect(token)
  \/ Tick

SpecSessions == InitSessions /\ [][NextSessions]_vars

(***************************************************************************)
(* Properties.                                                             *)
(***************************************************************************)
\* The places of the users collection that hold an email.
Registered(email) == {i \in 1..Len(users) : users[i].email = email}

\* The request called the session cache while the session of its token
\* stood: a connect had stored it, no disconnect had deleted it and its
\* time to live had not elapsed.
SessionSeen(q) ==
  /\ q.token \in DOMAIN issued
  /\ ~q.cacheRevoked
  /\ q.cacheAt < issued[q.token].at + TTL

\* The request ended with status and { error: message }.
Failed(q, status, message) ==
  q.pc = "done" /\ q.status = status /\ q.json = Error(message)

Made(q) == {q.calls[i] : i \in DOMAIN q.calls}

\* C1: a connect stores a session only for the user whose email and
\* password hash are those of its header, and from then on, while the
\* session stands (no disconnect, less than the time to live elapsed), every
\* getMe with the token finds the session with that user's email and is
\* answered 200 with that user's id and email, however often it is repeated.
C1_ResolveGivesTheAuthenticatedUser ==
  /\ \A r \in Waiting("getConnect", "set") :
       /\ \E i \in 1..Len(users) : users[i] = reqs[r].user
       /\ reqs[r].user.email = reqs[r].email
       /\ reqs[r].user.password = SHA1(reqs[r].password)
  /\ \A T \in DOMAIN issued :
       /\ \E i \in 1..Len(users) :
            users[i]._id = issued[T].userId /\ users[i].email = issued[T].email
       /\ (T \notin revoked /\ now < issued[T].at + TTL) =>
            /\ GetMeEnd(T).pc = "getUser"
            /\ GetMeEnd(T).email = issued[T].email
  /\ \A r \in Waiting("getMe", "getUser") :
       SessionSeen(reqs[r]) =>
         /\ GetMeGetUserEnd(reqs[r]).pc = "done"
         /\ GetMeGetUserEnd(reqs[r]).status = 200
         /\ GetMeGetUserEnd(reqs[r]).json =
              [id |-> issued[reqs[r].token].userId,
               email |-> issued[reqs[r].token].email]

\* Two getMe requests with the same token, one that found the session when
\* it was stored and one a second before its expiry, wait for the user; the
\* user is the second of two and the only one with the email.
C1_Witness ==
  /\ Len(users) = 2
  /\ \E T \in DOMAIN issued :
       /\ issued[T].userId = users[2]._id
       /\ Cardinality(Registered(issued[T].email)) = 1
       /\ \A r \in Slots :
            /\ reqs[r].op = "getMe" /\ reqs[r].pc = "getUser"
            /\ reqs[r].token = T
            /\ SessionSeen(reqs[r])
            /\ GetMeGetUserEnd(reqs[r]).status = 200
       /\ \E r1, r2 \in Slots :
            /\ reqs[r1].cacheAt = issued[T].at
            /\ reqs[r2].cacheAt = issued[T].at + TTL - 1

\* C2: once a disconnect has deleted the session of a token, every getMe and
\* every upload with the token is answered 401 Unauthorized at the session
\* cache, and every further disconnect with it is answered 401 Unauthorized;
\* none of them ends in any other way.
C2_RevokedTokenIsUnauthorized ==
  /\ \A T \in revoked :
       /\ Failed(GetMeEnd(T), 401, "Unauthorized")
       /\ \A body \in Bodies : Failed(PostUploadEnd(T, body), 401, "Unauthorized")
       /\ Failed(GetDisconnectEnd(T), 401, "Unauthorized")
       /\ ~Live(AuthKey(T))
  /\ \A r \in Slots :
       reqs[r].op \in {"getMe", "postUpload"} => ~reqs[r].cacheRevoked

\* A token was deleted by a disconnect before its time to live elapsed, and
\* a getMe and a second disconnect with it would be answered 401.
C2_Witness ==
  \E T \in revoked :
    /\ now < issued[T].at + TTL
    /\ GetMeEnd(T).status = 401
    /\ GetDisconnectEnd(T).status = 401

\* C3: a session comes to exist only in the step in which a connect stores
\* it under the token that connect generated, a token never used before; it
\* ceases to exist only when its time to live elapses or in a disconnect
\* with its token.  No other step of any handler adds or removes a session.
C3_SessionLifecycle ==
  [][\A k \in DOMAIN sessions \cup DOMAIN sessions' :
       /\ (~Live(k) /\ Live(k)') =>
            \E r \in Waiting("getConnect", "set") :
              /\ k = AuthKey(reqs[r].newToken)
              /\ reqs[r].newToken \notin DOMAIN issued \cup revoked
              /\ reqs'[r] = Idle
       /\ (Live(k) /\ ~Live(k)') =>
            \/ now < sessions[k].expiresAt /\ now' >= sessions[k].expiresAt
            \/ \E T \in revoked' \ revoked : k = AuthKey(T)]_vars

\* The session of a token was stored and has ceased to exist without a
\* disconnect: its time to live has elapsed.
C3_Witness ==
  \E T \in DOMAIN issued :
    /\ T \notin revoked
    /\ ~Live(AuthKey(T))
    /\ now >= issued[T].at + TTL

\* C4: a session is stored with an expiry of 86400 seconds from the step
\* that stores it and keeps its value and its expiry for as long as it
\* exists; a step of getMe changes no session, user, file or blob.
C4_ResolveChangesNothing ==
  [][/\ \A k \in DOMAIN sessions \cap DOMAIN sessions' : sessions'[k] = sessions[k]
     /\ \A k \in DOMAIN sessions' \ DOMAIN sessions :
          sessions'[k].expiresAt = now + 86400
     /\ (\E r \in Slots :
           reqs'[r] # reqs[r] /\ "getMe" \in {reqs[r].op, reqs'[r].op})
          => /\ sessions' = sessions
             /\ users' = users
             /\ files' = files
             /\ blobs' = blobs
             /\ writes' = writes]_vars

\* A getMe found the session of its token later than the session was stored
\* and waits for the user; the session still expires when it did.
C4_Witness ==
  \E r \in Waiting("getMe", "getUser") :
    /\ SessionSeen(reqs[r])
    /\ reqs[r].cacheAt > issued[reqs[r].token].at
    /\ Live(AuthKey(reqs[r].token))
    /\ sessions[AuthKey(reqs[r].token)].expiresAt = issued[reqs[r].token].at + TTL

\* C5: every session is stored under "auth_" followed by a token that a
\* connect generated and holds the email of the user of that connect; unless
\* a disconnect deletes it, it is read for 86400 seconds from the step that
\* stored it, and from then on the cache holds nothing for the token and
\* getMe is answered 401 Unauthorized.
C5_SessionOfTokenLives86400 ==
  /\ \A k \in DOMAIN sessions : \E T \in DOMAIN issued : k = AuthKey(T)
  /\ \A T \in DOMAIN issued :
       /\ (T \notin revoked /\ now < issued[T].at + 86400) =>
            /\ AuthKey(T) \in DOMAIN sessions
            /\ sessions[AuthKey(T)] =
                 [value |-> issued[T].email, expiresAt |-> issued[T].at + 86400]
            /\ RedisGet(AuthKey(T)) = issued[T].email
       /\ now >= issued[T].at + 86400 =>
            /\ RedisGet(AuthKey(T)) = null
            /\ Failed(GetMeEnd(T), 401, "Unauthorized")

\* 86400 seconds after a session was stored, a getMe that read it one second
\* earlier waits for the user, and a getMe now would be answered 401.
C5_Witness ==
  \E T \in DOMAIN issued :
    /\ T \notin revoked
    /\ now = issued[T].at + 86400
    /\ GetMeEnd(T).status = 401
    /\ \E r \in Waiting("getMe", "getUser") :
         reqs[r].token = T /\ reqs[r].cacheAt = issued[T].at + 86399

\* The header gives an email and a password.
Parsed(authorization) ==
  /\ GetAuthorization(authorization).error = ""
  /\ GetCredentials(authorization).error = ""

EmailOf(authorization) == GetCredentials(authorization).value[1]

PasswordOf(authorization) == GetCredentials(authorization).value[2]

\* C6: with the users collection connected, a connect whose header gives an
\* email that no user has, or a password whose hash is not the stored hash
\* of any user with that email, is answered 401 Unauthorized with no token;
\* it generates no token and goes on to store no session.  A connect that
\* goes on to store a session holds a user with its email and its hash.
C6_ConnectRejectsUnknownCredentials ==
  /\ \A authorization \in Authorizations :
       (/\ Parsed(authorization)
        /\ UsersCollectionReady
        /\ \A i \in Registered(EmailOf(authorization)) :
             users[i].password # SHA1(PasswordOf(authorization)))
         => /\ Failed(GetConnectEnd(authorization), 401, "Unauthorized")
            /\ GetConnectEnd(authorization).newToken = undefined
            /\ "redis.set" \notin Made(GetConnectEnd(authorization))
  /\ \A r \in Waiting("getConnect", "set") :
       \E i \in Registered(reqs[r].email) :
         users[i].password = SHA1(reqs[r].password)

\* The user "a" is registered with the password "p" and the user "b" is
\* not: a connect with "a:q" and one with "b:p" would be answered 401, while
\* a connect with "a:p" waits to store its session.
C6_Witness ==
  /\ Registered(EmailA) # {}
  /\ Registered(EmailB) = {}
  /\ GetConnectEnd(HeaderAQ).status = 401
  /\ GetConnectEnd(HeaderBP).status = 401
  /\ \E r \in Waiting("getConnect", "set") : reqs[r].authorization = HeaderAP

\* What getMe and the uploads make of a token at the session cache.
Resolved(token) ==
  {GetMeEnd(token)} \cup {PostUploadEnd(token, body) : body \in Bodies}

\* C7: a request without a token is answered 400 Missing token and calls
\* neither the cache nor the users collection; with a token that has no
\* session it calls the cache, is answered 401 Unauthorized and does not
\* call the users collection; with a session it goes on to look up the
\* session's email, and getMe is then answered 401 Unauthorized if no user
\* has the email and 200 with the id and email of a user that has it
\* otherwise.
C7_ResolveOrder ==
  /\ \A token \in Tokens : \A q \in Resolved(token) :
       /\ Falsy(token) =>
            Failed(q, 400, "Missing token") /\ q.calls = <<>>
       /\ (~Falsy(token) /\ ~Live(AuthKey(token))) =>
            Failed(q, 401, "Unauthorized") /\ q.calls = <<"redis.get">>
       /\ (~Falsy(token) /\ Live(AuthKey(token)) /\ UsersCollectionReady) =>
            /\ q.pc = "getUser"
            /\ q.calls = <<"redis.get", "db.getUser">>
            /\ q.email = sessions[AuthKey(token)].value
  /\ \A r \in Waiting("getMe", "getUser") :
       /\ Registered(reqs[r].email) = {} =>
            Failed(GetMeGetUserEnd(reqs[r]), 401, "Unauthorized")
       /\ Registered(reqs[r].email) # {} =>
            /\ GetMeGetUserEnd(reqs[r]).status = 200
            /\ GetMeGetUserEnd(reqs[r]).json.email = reqs[r].email
            /\ \E i \in Registered(reqs[r].email) :
                 GetMeGetUserEnd(reqs[r]).json.id = users[i]._id

\* A getMe found the session of its token and waits for the user, who
\* exists; the session has gone since, and a getMe with the same token now
\* would be answered 401 after the call of the cache alone.
C7_Witness ==
  \E r \in Waiting("getMe", "getUser") :
    /\ ~Live(AuthKey(reqs[r].token))
    /\ GetMeEnd(reqs[r].token).status = 401
    /\ GetMeEnd(reqs[r].token).calls = <<"redis.get">>
    /\ GetMeGetUserEnd(reqs[r]).status = 200

\* C8: a postNew with an email and a password, arriving when a user with
\* the email exists, is answered 400 Already exist after the lookup and
\* never calls createUser, whatever the password.
C8_RegisterExistingEmailFails ==
  \A email \in {EmailA, EmailB}, password \in {PasswordP, PasswordQ} :
    Registered(email) # {} =>
      /\ Failed(PostNewEnd(email, password), 400, "Already exist")
      /\ PostNewEnd(email, password).calls = <<"db.getUser">>

\* The user "a" exists with the hash of "p"; a postNew of "a" with the
\* password "q" would be answered 400.
C8_Witness ==
  /\ Registered(EmailA) # {}
  /\ \A i \in Registered(EmailA) : users[i].password = SHA1(PasswordP)
  /\ PostNewEnd(EmailA, PasswordQ).status = 400
  /\ PostNewEnd(EmailA, PasswordQ).json = Error("Already exist")

\* C9: no two users have the same email.
C9_EmailUnique ==
  \A i, j \in 1..Len(users) : users[i].email = users[j].email => i = j

\* The checks of lines 46-54 reject the body.
Rejected(q, message) ==
  /\ Failed(q, 400, message)
  /\ "db.getFile" \notin Made(q)
  /\ "db.createFile" \notin Made(q)

Invalid(body) ==
  \/ Falsy(body.name)
  \/ body.type \notin {FOLDER, FILE, IMAGE}
  \/ body.type \in {FILE, IMAGE} /\ Falsy(body.data)

\* C10: an upload of a user that exists is answered 400 Missing name if its
\* body has no name; otherwise 400 Missing type if its type is not folder,
\* file or image; otherwise 400 Missing data if it is a file or an image
\* without data.  It then calls neither getFile nor createFile, and the step
\* leaves the files collection, the blobs, the pending writes, the
\* directory and the uuid counter as they were.
C10_UploadValidationOrder ==
  /\ [](\A r \in Waiting("postUpload", "getUser") :
          ~IsNull(GetUser(reqs[r].email)) =>
            /\ Falsy(reqs[r].body.name) =>
                 Rejected(PostUploadGetUserEnd(reqs[r]), "Missing name")
            /\ (/\ ~Falsy(reqs[r].body.name)
                /\ reqs[r].body.type \notin {FOLDER, FILE, IMAGE}) =>
                 Rejected(PostUploadGetUserEnd(reqs[r]), "Missing type")
            /\ (/\ ~Falsy(reqs[r].body.name)
                /\ reqs[r].body.type \in {FILE, IMAGE}
                /\ Falsy(reqs[r].body.data)) =>
                 Rejected(PostUploadGetUserEnd(reqs[r]), "Missing data"))
  /\ [][\A r \in Waiting("postUpload", "getUser") :
          (reqs'[r] # reqs[r] /\ Invalid(reqs[r].body)) =>
            /\ reqs'[r] = Idle
            /\ files' = files
            /\ blobs' = blobs
            /\ writes' = writes
            /\ fsRoot' = fsRoot
            /\ uuids' = uuids]_vars

\* An upload of a file with a name and a parent and without data waits for
\* its user, who exists, while another with a type that is not allowed
\* waits too: the first would be answered Missing data, the second Missing
\* type.
C10_Witness ==
  \E r1, r2 \in Waiting("postUpload", "getUser") :
    /\ reqs[r1].body = Body(NameN, FILE, undefined, ParentHex)
    /\ reqs[r2].body = Body(NameN, Spreadsheet, DataHi, undefined)
    /\ ~IsNull(GetUser(reqs[r1].email))
    /\ PostUploadGetUserEnd(reqs[r1]).json = Error("Missing data")
    /\ PostUploadGetUserEnd(reqs[r2]).json = Error("Missing type")

\* C11: a document of the files collection has a localPath if and only if
\* its type is file or image; a folder never has one.
C11_BlobReferenceIffFileOrImage ==
  \A i \in 1..Len(files) :
    /\ ("localPath" \in DOMAIN files[i]) <=> (files[i].type \in {FILE, IMAGE})
    /\ "localPath" \in DOMAIN files[i] => ~Falsy(files[i].localPath)

\* The files collection holds a folder without a localPath and a file or an
\* image with one.
C11_Witness ==
  \E i, j \in 1..Len(files) :
    /\ files[i].type = FOLDER
    /\ "localPath" \notin DOMAIN files[i]
    /\ files[j].type \in {FILE, IMAGE}
    /\ "localPath" \in DOMAIN files[j]
    /\ StartsWith(files[j].localPath, FOLDER_PATH)

\* C12: every document of the files collection whose parentId is not 0 names
\* a document inserted before it that has the same owner and is a folder.
C12_ParentIsOwnFolder ==
  \A i \in 1..Len(files) :
    files[i].parentId # Number(0) =>
      \E j \in 1..(i - 1) :
        /\ ToHexString(files[j]._id) = files[i].parentId
        /\ files[j].userId = files[i].userId
        /\ files[j].type = FOLDER

\* The documents that the parentId of an upload names, as the client reads
\* ids, and that belong to the user of the upload.
OwnParents(q) ==
  {i \in 1..Len(files) :
     /\ ToHexString(files[i]._id) = ParentIdOf(q.body)
     /\ files[i].userId = q.user._id}

\* C13: an upload of a file or an image with a parentId is answered 400
\* Parent not found if no document of its user has that id, and 400 Parent
\* is not a folder if one has it and is not a folder; in both cases it goes
\* on to no write of a blob and no createFile.
C13_ParentNotFoundOrNotAFolder ==
  \A r \in Waiting("postUpload", "getFile") :
    /\ OwnParents(reqs[r]) = {} =>
         /\ Failed(PostUploadGetFileEnd(reqs[r]), 400, "Parent not found")
         /\ "db.createFile" \notin Made(PostUploadGetFileEnd(reqs[r]))
    /\ (\E i \in OwnParents(reqs[r]) : files[i].type # FOLDER) =>
         /\ Failed(PostUploadGetFileEnd(reqs[r]), 400, "Parent is not a folder")
         /\ "db.createFile" \notin Made(PostUploadGetFileEnd(reqs[r]))

\* C14: an upload of a file with data whose parentId is the id of a folder
\* of its user goes on from the lookup of the parent to the blob and to
\* createFile with that parentId.
C14_UploadIntoOwnFolder ==
  \A r \in Waiting("postUpload", "getFile") :
    (/\ ~Falsy(reqs[r].body.data)
     /\ \E i \in OwnParents(reqs[r]) : files[i].type = FOLDER) =>
      /\ PostUploadGetFileEnd(reqs[r]).pc = "createFile"
      /\ FileOf(PostUploadGetFileEnd(reqs[r])).parentId = reqs[r].body.parentId

\* C15: no step of an upload of a folder, from its arrival to its answer
\* 201, changes the blobs, the pending writes, the directory or the uuid
\* counter, and the document it inserts has no localPath.
C15_FolderTouchesNoBlob ==
  /\ [](\A r \in Waiting("postUpload", "createFolder") :
          /\ PostUploadCreateFolderEnd(reqs[r]).status = 201
          /\ "localPath" \notin DOMAIN FolderOf(reqs[r]))
  /\ [][\A r \in Slots :
          (/\ reqs'[r] # reqs[r]
           /\ \/ reqs[r].op = "postUpload" /\ reqs[r].body.type = FOLDER
              \/ reqs'[r].op = "postUpload" /\ reqs'[r].body.type = FOLDER) =>
            /\ blobs' = blobs
            /\ writes' = writes
            /\ fsRoot' = fsRoot
            /\ uuids' = uuids]_vars

\* Two folders are stored, one of them with a parentId, and nothing was
\* ever done to the directory or the blobs.
C15_Witness ==
  /\ Len(files) = 2
  /\ \A i \in 1..Len(files) : files[i].type = FOLDER
  /\ \E i \in 1..Len(files) : files[i].parentId # Number(0)
  /\ ~fsRoot
  /\ blobs = <<>>
  /\ writes = {}
  /\ uuids = 1

\* C16: the blob of an upload of a file or an image is written under a path
\* that no document and no other upload has, and the bytes written are the
\* bytes that the data of the upload encodes in base64.
C16_BlobIsDecodedData ==
  \A r \in Waiting("postUpload", "createFile") :
    /\ \A i \in 1..Len(files) :
         "localPath" \in DOMAIN files[i] => files[i].localPath # reqs[r].path
    /\ \A x \in Waiting("postUpload", "createFile") :
         reqs[x].path = reqs[r].path => x = r
    /\ \A w \in writes :
         w.path = reqs[r].path =>
           Utf8Encode(w.data) = Base64Decode(reqs[r].body.data)
    /\ reqs[r].path \in DOMAIN blobs =>
         blobs[reqs[r].path] = Base64Decode(reqs[r].body.data)

(***************************************************************************)
(* Show and list.                                                          *)
(***************************************************************************)
MaxPage == 3    \* the pages that are compared with their windows

\* The documents whose id is written as the string id.
WithId(id) == {i \in 1..Len(files) : ToHexString(files[i]._id) = id}

\* The identity of the request: the user its token was issued to.
Requester(q) == issued[q.token].userId

\* C17: a show is answered with a document only if a document of that id
\* exists and the requesting user owns it; for the id of a document of
\* another user it is answered 404 Not found, with the same status and
\* body as for an id that no document has.
C17_ShowOnlyOwnFile ==
  \A r \in Waiting("getShow", "getFile") :
    LET q == reqs[r]
        end == GetShowGetFileEnd(q)
        absent == GetShowGetFileEnd([q EXCEPT !.body = [id |-> AbsentId]])
    IN /\ WithId(AbsentId) = {}
       /\ end.status = 200 =>
            \E i \in WithId(q.body.id) :
              files[i].userId = Requester(q) /\ end.json.id = files[i]._id
       /\ (\A i \in WithId(q.body.id) : files[i].userId # Requester(q)) =>
            /\ Failed(end, 404, "Not found")
            /\ end.status = absent.status
            /\ end.json = absent.json

C17_Witness ==
  \E r \in Waiting("getShow", "getFile") :
    /\ \E i \in WithId(reqs[r].body.id) : files[i].userId # Requester(reqs[r])
    /\ Failed(GetShowGetFileEnd(reqs[r]), 404, "Not found")

\* The parentId that a list asks for: that of the query, 0 without one.
Requested(q) ==
  IF q.body.parentId = undefined THEN Number(0) ELSE q.body.parentId

\* C18: every entry of the answer to a list is a document whose userId is
\* the requesting user and whose parentId is the requested one, whichever
\* documents of whichever users the store holds.
C18_ListOnlyOwnInParent ==
  \A r \in Waiting("getIndex", "getFiles") :
    LET end == GetIndexGetFilesEnd(reqs[r])
        listed == IF end.status = 200 THEN end.json.files ELSE <<>>
    IN \A n \in 1..Len(listed) :
         \E i \in 1..Len(files) :
           /\ files[i]._id = listed[n].id
           /\ files[i].userId = Requester(reqs[r])
           /\ files[i].parentId = Requested(reqs[r])
           /\ listed[n].parentId = Requested(reqs[r])

C18_Witness ==
  \E r \in Waiting("getIndex", "getFiles") :
    /\ GetIndexGetFilesEnd(reqs[r]).status = 200
    /\ Len(GetIndexGetFilesEnd(reqs[r]).json.files) > 1
    /\ \E i \in 1..Len(files) :
         /\ files[i].userId # Requester(reqs[r])
         /\ files[i].parentId = Requested(reqs[r])
    /\ \E i \in 1..Len(files) :
         /\ files[i].userId = Requester(reqs[r])
         /\ files[i].parentId # Requested(reqs[r])

\* The documents of a user under a parentId, in the order of the store.
Matching(userId, parentId) ==
  SelectSeq(files, LAMBDA f : f.userId = userId /\ f.parentId = parentId)

\* The ids of the answer to the list of q asked for page n.
PageIds(q, n) ==
  LET listed == GetIndexGetFilesEnd([q EXCEPT !.body.page = Digit(n)]).json.files
  IN [i \in 1..Len(listed) |-> listed[i].id]

RECURSIVE PagesIds(_, _)
PagesIds(q, k) ==
  IF k = 0 THEN PageIds(q, 0) ELSE PagesIds(q, k - 1) \o PageIds(q, k)

\* The ids of the matching documents at the positions from..to, counted
\* from 0, as far as there are any.
WindowIds(q, from, to) ==
  LET all == Matching(Requester(q), Requested(q))
  IN [i \in 1..((IF to + 1 < Len(all) THEN to + 1 ELSE Len(all)) - from) |->
        all[from + i]._id]

\* C19: for a user and a parentId, page n of the list is the window of the
\* matching documents at the positions n*20 .. n*20+19 of the store's
\* order, and the pages 0..k one after another are the first (k+1)*20
\* matching documents, none twice and none left out.
C19_PagesAreWindows ==
  \A r \in Waiting("getIndex", "getFiles") :
    /\ \A n \in 0..MaxPage :
         PageIds(reqs[r], n) = WindowIds(reqs[r], n * 20, n * 20 + 19)
    /\ \A k \in 0..MaxPage :
         LET pages == PagesIds(reqs[r], k)
         IN /\ pages = WindowIds(reqs[r], 0, (k + 1) * 20 - 1)
            /\ Cardinality({pages[i] : i \in 1..Len(pages)}) = Len(pages)
    /\ IsDigits(reqs[r].body.page) =>
         GetIndexGetFilesEnd(reqs[r]).json.files
           = GetIndexGetFilesEnd([reqs[r] EXCEPT
               !.body.page = Digit(DigitsValue(reqs[r].body.page))]).json.files

C19_Witness ==
  \E r \in Waiting("getIndex", "getFiles") :
    /\ reqs[r].body.page = Digit(2)
    /\ Len(Matching(Requester(reqs[r]), Requested(reqs[r]))) > 40
    /\ Len(PageIds(reqs[r], 2)) \in 1..19
    /\ Len(PageIds(reqs[r], 1)) = 20

C21_ListNeverFailsPastResolve ==
  \A r \in Waiting("getIndex", "getFiles") :
    /\ GetIndexGetFilesEnd(reqs[r]).status = 200
    /\ Len(GetIndexGetFilesEnd(reqs[r]).json.files) \in 0..20

\* The fields of the JSON of a document.
RecordFields == {"id", "userId", "name", "type", "isPublic", "parentId"}

\* The JSON j is that of a document of the store: its id is the _id of the
\* document and its userId the userId of the document.
IsRecordOfStore(j) ==
  /\ DOMAIN j = RecordFields
  /\ \E i \in 1..Len(files) :
       /\ files[i]._id = j.id
       /\ files[i].userId = j.userId
       /\ files[i].name = j.name /\ files[i].type = j.type
       /\ files[i].isPublic = j.isPublic /\ files[i].parentId = j.parentId

\* C22: the JSON that an upload, a show and a list answer for a document
\* has the fields id, userId, name, type, isPublic and parentId, its id is
\* the _id of the document and its userId the _id of the user who owns the
\* document.
C22_SameRecordInEveryAnswer ==
  /\ \A r \in Waiting("postUpload", "createFolder") :
       LET j == PostUploadCreateFolderEnd(reqs[r]).json
       IN /\ DOMAIN j = RecordFields
          /\ j.id = FolderOf(reqs[r])._id
          /\ j.userId = Requester(reqs[r])
  /\ \A r \in Waiting("getShow", "getFile") :
       GetShowGetFileEnd(reqs[r]).status = 200 =>
         /\ IsRecordOfStore(GetShowGetFileEnd(reqs[r]).json)
         /\ GetShowGetFileEnd(reqs[r]).json.userId = Requester(reqs[r])
  /\ \A r \in Waiting("getIndex", "getFiles") :
       LET end == GetIndexGetFilesEnd(reqs[r])
       IN end.status = 200 =>
            \A n \in 1..Len(end.json.files) :
              /\ IsRecordOfStore(end.json.files[n])
              /\ end.json.files[n].userId = Requester(reqs[r])

(***************************************************************************)
(* The answers of the file handlers.                                       *)
(***************************************************************************)
\* The request q after the step it is waiting for.
StepEnd(q) ==
  IF q.op = "getMe" THEN GetMeGetUserEnd(q)
  ELSE IF q.op = "getShow"
    THEN (IF q.pc = "getUser" THEN GetShowGetUserEnd(q) ELSE GetShowGetFileEnd(q))
  ELSE IF q.op = "getIndex"
    THEN (IF q.pc = "getUser" THEN GetIndexGetUserEnd(q)
          ELSE GetIndexGetFilesEnd(q))
  ELSE IF q.pc = "getUser" THEN PostUploadGetUserEnd(q)
  ELSE IF q.pc = "createFolder" THEN PostUploadCreateFolderEnd(q)
  ELSE IF q.pc = "getFile" THEN PostUploadGetFileEnd(q)
  ELSE PostUploadCreateFileEnd(q)

\* The requests of the file handlers and of getMe that wait for a step.
InFlight ==
  {reqs[r] : r \in {x \in Slots : reqs[x].op \in {"getMe", "postUpload",
                                                  "getShow", "getIndex"}}}

\* The paths of the blobs: those of the stored documents and those of the
\* uploads that are about to store theirs.
LocalPaths ==
  {files[i].localPath : i \in {x \in 1..Len(files) : "localPath" \in DOMAIN files[x]}}
    \cup {q.path : q \in {x \in InFlight : x.path # undefined}}

\* The record j of a JSON has a field localPath or a field that is a path.
ShowsPath(j) ==
  /\ DOMAIN j # {"error"}
  /\ \/ "localPath" \in DOMAIN j
     \/ \E f \in DOMAIN j : j[f] \in LocalPaths

\* C23: no answer of an upload, a show or a list, whether it succeeds or
\* fails, has a field localPath or the path of the blob of a document as
\* one of its values.
C23_NoAnswerShowsLocalPath ==
  \A q \in InFlight :
    LET end == StepEnd(q)
    IN Ended(end) =>
         IF q.op = "getIndex" /\ end.status = 200
           THEN \A n \in 1..Len(end.json.files) : ~ShowsPath(end.json.files[n])
           ELSE ~ShowsPath(end.json)

C23_Witness ==
  /\ \E q \in InFlight :
       /\ q.op = "getIndex" /\ q.pc = "getFiles"
       /\ StepEnd(q).status = 200
       /\ \E n \in 1..Len(StepEnd(q).json.files), i \in 1..Len(files) :
            /\ files[i]._id = StepEnd(q).json.files[n].id
            /\ "localPath" \in DOMAIN files[i]
  /\ LocalPaths # {}

\* The token has no live session, or is none.
Unresolved(token) == Falsy(token) \/ RedisGet(AuthKey(token)) = null

\* The request has failed at its token and has called at most the session
\* cache.
FailedAtToken(q) ==
  /\ \/ Failed(q, 400, "Missing token")
     \/ Failed(q, 401, "Unauthorized")
  /\ Made(q) \subseteq {"redis.get"}

\* C24: getMe, upload, show and list resolve the token before anything
\* else: the first call of a request is that of the session cache, the
\* second that of getUser for the email of the session, and every call of
\* getFile, getFiles and createFile and every check of the body comes
\* after both; a request whose token does not resolve is answered with
\* that failure whatever its body, id or query is, and the step that
\* answers it changes nothing.
C24_ResolveFirst ==
  /\ [](/\ \A q \in InFlight :
            /\ q.calls[1] = "redis.get"
            /\ q.pc # "getUser" =>
                 /\ q.calls[2] = "db.getUser"
                 /\ q.user = GetUser(RedisAt(q.cacheAt)[AuthKey(q.token)].value)
            /\ \A i \in 3..Len(q.calls) :
                 q.calls[i] \in {"db.getFile", "db.getFiles", "db.createFile"}
            /\ \A i \in 1..2 :
                 i <= Len(q.calls) => q.calls[i] \in {"redis.get", "db.getUser"}
       /\ \A token \in BrowseTokens :
            Unresolved(token) =>
              /\ FailedAtToken(GetMeEnd(token))
              /\ \A body \in Bodies : FailedAtToken(PostUploadEnd(token, body))
              /\ \A id \in ShowIds : FailedAtToken(GetShowEnd(token, id))
              /\ \A page \in {undefined, Digit(2), <<45, 49>>} :
                   FailedAtToken(GetIndexEnd(token, [parentId |-> BrowseParent,
                                                     page |-> page]))
              /\ SessionsAfterResolve(token) = sessions)
  /\ [][reqs' = reqs /\ writes' = writes => UNCHANGED vars]_vars

C24_Witness ==
  /\ \E q \in InFlight :
       /\ q.op = "postUpload" /\ q.pc = "createFile"
       /\ q.calls = <<"redis.get", "db.getUser", "db.createFile">>
  /\ Unresolved(v4(3))
  /\ \E body \in Bodies :
       ValidateUpload(body) # "" /\ Failed(PostUploadEnd(v4(3), body), 401, "Unauthorized")

\* A write of the path is pending.
Pending(path) == \E w \in writes : w.path = path

\* C25: an upload of a file or an image issues the write of the blob
\* before it inserts the document, and neither waits for the write nor
\* looks at its outcome: the insert and the 201 come whether the write is
\* pending, done or failed, so a failed write leaves a document whose
\* blob does not exist, and an insert that fails leaves the blob and the
\* pending write as they are.
C25_BlobBeforeInsertNoRollback ==
  /\ [](\A r \in Waiting("postUpload", "createFile") :
          /\ PostUploadCreateFileEnd(reqs[r]).status = 201
          /\ PostUploadCreateFileEnd(reqs[r]).json.id = FileOf(reqs[r])._id
          /\ FileOf(reqs[r]).localPath = reqs[r].path)
  /\ [][\A r \in Slots :
          /\ (reqs[r].pc # "createFile" /\ reqs'[r].pc = "createFile") =>
               /\ \E w \in writes' \ writes : w.path = reqs'[r].path
               /\ files' = files
          /\ (reqs[r].pc = "createFile" /\ reqs'[r] # reqs[r]) =>
               /\ writes' = writes /\ blobs' = blobs /\ fsRoot' = fsRoot
               /\ \/ files' = files
                  \/ /\ files' = Append(files, FileOf(reqs[r]))
                     /\ files'[Len(files')].localPath = reqs[r].path]_vars

\* A blob that no document and no upload refers to, next to a document
\* whose blob was never written.
C25_Witness ==
  /\ \E p \in DOMAIN blobs :
       /\ \A i \in 1..Len(files) : files[i].localPath # p
       /\ \A r \in Slots : reqs[r].path # p
  /\ \E i \in 1..Len(files) :
       files[i].localPath \notin DOMAIN blobs /\ ~Pending(files[i].localPath)

\* C26: a step of any operation leaves every document of the users
\* collection in the collection with its _id, email and password as they
\* are; the collection only grows.
C26_UsersOnlyGrow ==
  [][/\ \A i \in 1..Len(users) :
          \E j \in 1..Len(users') :
            /\ users'[j]._id = users[i]._id
            /\ users'[j].email = users[i].email
            /\ users'[j].password = users[i].password
     /\ Len(users') >= Len(users)]_vars

C26_Witness ==
  /\ Len(users) >= 1
  /\ revoked # {}
  /\ Waiting("postNew", "createUser") # {}

\* C27: a step of any operation leaves every document of the files
\* collection in the collection with all its fields as they are, and the
\* collection does not shrink; the steps of a show and of a list change
\* neither the files collection nor the blobs, the pending writes and the
\* directory.
C27_FilesOnlyGrow ==
  [][/\ \A i \in 1..Len(files) : \E j \in 1..Len(files') : files'[j] = files[i]
     /\ Len(files') >= Len(files)
     /\ \A r \in Slots :
          (/\ reqs'[r] # reqs[r]
           /\ \/ reqs[r].op \in {"getShow", "getIndex"}
              \/ reqs'[r].op \in {"getShow", "getIndex"}) =>
            /\ files' = files /\ blobs' = blobs
            /\ writes' = writes /\ fsRoot' = fsRoot]_vars

C27_Witness ==
  /\ Len(files) >= 1
  /\ "localPath" \in DOMAIN files[1]
  /\ Waiting("getIndex", "getFiles") # {}
  /\ Waiting("postUpload", "createFolder") # {}

\* The Authorization header gives an email and a password.
WellFormed(authorization) ==
  /\ GetAuthorization(authorization).error = ""
  /\ GetCredentials(GetAuthorization(authorization).value).error = ""

\* C28: a connect whose call of the users collection fails, the store
\* being out of reach, is not answered with a status of the domain errors,
\* 400, 401 or 404.
C28_StoreFailureIsNoDomainError ==
  \A authorization \in Authorizations :
    (WellFormed(authorization) /\ ~UsersCollectionReady) =>
      ~(/\ GetConnectEnd(authorization).pc = "done"
        /\ GetConnectEnd(authorization).status \in {400, 401, 404})

\* C29: the decoded credentials are split at their first colon: for an
\* email e without a colon and a password p, with colons or without or
\* empty, the string e:p and the header made of it give the email e and
\* the password p, and a connect that goes on to store a session has taken
\* from its header the email and the password of the registered user.
C29_SplitAtFirstColon ==
  /\ \A e \in Emails, p \in Passwords :
       /\ SplitAuthorizationHeader(e \o <<Colon>> \o p) = Returned(<<e, p>>)
       /\ GetCredentials(HeaderOf(e, p)) = Returned(<<e, p>>)
  /\ \A r \in Waiting("getConnect", "set") :
       /\ reqs[r].authorization = HeaderOf(reqs[r].email, reqs[r].password)
       /\ reqs[r].email = users[1].email
       /\ SHA1(reqs[r].password) = users[1].password

C29_Witness ==
  \E r \in Waiting("getConnect", "set") :
    /\ Len(reqs[r].password) = 3
    /\ reqs[r].password[2] = Colon /\ reqs[r].password[3] = Colon
    /\ SHA1(reqs[r].password) = users[1].password

\* The requests that an upload, a show and a list with the token are on
\* arrival, after the session cache has been asked.
Arrivals(token) ==
  {PostUploadEnd(token, body) : body \in Bodies}
    \cup {GetShowEnd(token, AbsentId),
          GetIndexEnd(token, [parentId |-> undefined, page |-> Digit(1)])}

\* C30: in upload, show and list the status follows the kind of the
\* outcome: 400 for no token, 401 for a token without a session, 400 for a
\* body without name, type or data and for a parent that is not found or
\* is no folder, 404 for a show that finds nothing, 201 for an upload that
\* stores its document, 200 for a show and a list that answer documents;
\* no failure of the body is answered 401 and no unknown token 400.
C30_StatusByKind ==
  /\ \A token \in BrowseTokens : \A q \in Arrivals(token) :
       /\ Falsy(token) => Failed(q, 400, "Missing token")
       /\ (~Falsy(token) /\ Unresolved(token)) => Failed(q, 401, "Unauthorized")
       /\ ~Unresolved(token) => ~Ended(q)
  /\ \A q \in {x \in InFlight : x.op # "getMe"} :
       LET end == StepEnd(q)
       IN /\ Ended(end) => end.status \in {200, 201, 400, 404}
          /\ (q.op = "postUpload" /\ q.pc = "getUser") =>
               IF Invalid(q.body)
                 THEN end.pc = "done" /\ end.status = 400
                      /\ end.json \in {Error("Missing name"), Error("Missing type"),
                                       Error("Missing data")}
                 ELSE ~Ended(end)
          /\ (q.op = "postUpload" /\ q.pc = "getFile" /\ Ended(end)) =>
               /\ end.status = 400
               /\ end.json \in {Error("Parent not found"),
                                Error("Parent is not a folder")}
          /\ (q.op = "postUpload" /\ q.pc \in {"createFolder", "createFile"}) =>
               end.pc = "done" /\ end.status = 201
          /\ (q.op = "getShow" /\ q.pc = "getFile") =>
               /\ end.pc = "done" /\ end.status \in {200, 404}
               /\ end.status = 404 <=> end.json = Error("Not found")
               /\ (\A i \in WithId(q.body.id) : files[i].userId # Requester(q)) =>
                    end.status = 404
          /\ (q.op = "getIndex" /\ q.pc = "getFiles" /\ PageOffset(q.body) >= 0) =>
               end.pc = "done" /\ end.status = 200

C30_Witness ==
  /\ \E q \in InFlight :
       /\ q.op = "postUpload" /\ q.pc = "getUser" /\ Invalid(q.body)
       /\ StepEnd(q).status = 400
  /\ Unresolved(v4(3))
  /\ \A q \in Arrivals(v4(3)) : Failed(q, 401, "Unauthorized")
  /\ Len(files) >= 1

(***************************************************************************)
(* Registration, sessions, responses.                                      *)
(***************************************************************************)
\* C31: a postNew without an email is answered 400 Missing email;
\* otherwise without a password 400 Missing password; otherwise, the store
\* being connected, with the email of a user 400 Already exist; none of
\* these calls createUser and the step changes no user.  Otherwise the
\* request inserts exactly one user, with its email and the hash of its
\* password, and is answered with the _id of that user and the email.
C31_RegistrationOrder ==
  /\ [](/\ \A email \in {undefined, <<>>, EmailA, EmailB} :
            \A password \in {undefined, <<>>, PasswordP, PasswordQ} :
              LET end == PostNewEnd(email, password)
              IN /\ Falsy(email) => Failed(end, 400, "Missing email")
                 /\ (~Falsy(email) /\ Falsy(password)) =>
                      Failed(end, 400, "Missing password")
                 /\ (/\ ~Falsy(email) /\ ~Falsy(password)
                     /\ UsersCollectionReady /\ Registered(email) # {}) =>
                      Failed(end, 400, "Already exist")
                 /\ (/\ ~Falsy(email) /\ ~Falsy(password)
                     /\ UsersCollectionReady /\ Registered(email) = {}) =>
                      end.pc = "createUser"
                 /\ Ended(end) => "db.createUser" \notin Made(end)
       /\ \A r \in Waiting("postNew", "createUser") :
            LET end == PostNewCreateUserEnd(reqs[r])
            IN /\ end.pc = "done" /\ end.status = 200
               /\ end.json = [id |-> NewObjectId, email |-> reqs[r].email])
  /\ [][users' # users =>
          \E r \in Waiting("postNew", "createUser") :
            /\ reqs'[r] = Idle
            /\ Len(users') = Len(users) + 1
            /\ SubSeq(users', 1, Len(users)) = users
            /\ users'[Len(users')] =
                 [_id |-> NewObjectId, email |-> reqs[r].email,
                  password |-> SHA1(reqs[r].password)]]_vars

C31_Witness ==
  /\ Waiting("postNew", "createUser") # {}
  /\ Len(users) >= 1
  /\ Failed(PostNewEnd(users[1].email, PasswordQ), 400, "Already exist")
  /\ Failed(PostNewEnd(undefined, undefined), 400, "Missing email")

\* C32: sessions are independent per token.  The SETEX of a connect adds the
\* key of its new token and leaves every session already stored, of the same
\* user or of another, with its value and its expiry; a disconnect that
\* deletes removes the key of its token alone and leaves the others as they
\* were; a disconnect with no token answers 400 Missing token and leaves the
\* store as it is.
C32_SessionsIndependent ==
  /\ [](\A token \in {undefined, <<>>} :
          /\ Failed(GetDisconnectEnd(token), 400, "Missing token")
          /\ SessionsAfterDisconnect(token) = sessions)
  /\ [][/\ \A r \in Waiting("getConnect", "set") :
             reqs'[r] = Idle =>
               /\ AuthKey(reqs[r].newToken) \notin DOMAIN sessions
               /\ DOMAIN sessions' =
                    DOMAIN sessions \cup {AuthKey(reqs[r].newToken)}
               /\ \A k \in DOMAIN sessions : sessions'[k] = sessions[k]
        /\ (reqs' = reqs /\ now' = now /\ sessions' # sessions) =>
             \E token \in DOMAIN issued :
               /\ Live(AuthKey(token))
               /\ revoked' = revoked \cup {token}
               /\ DOMAIN sessions' = DOMAIN sessions \ {AuthKey(token)}
               /\ \A k \in DOMAIN sessions' : sessions'[k] = sessions[k]]_vars

\* User a holds two sessions stored at different times, after the session
\* of user b was deleted.
C32_Witness ==
  /\ revoked = {v4(2)}
  /\ Live(AuthKey(v4(1)))
  /\ Live(AuthKey(v4(3)))
  /\ sessions[AuthKey(v4(3))].value = sessions[AuthKey(v4(1))].value
  /\ sessions[AuthKey(v4(3))].expiresAt # sessions[AuthKey(v4(1))].expiresAt

\* C33: every request is answered: no handler ends without a response,
\* whatever it was sent and whether the store is connected, connecting or
\* out of reach.  The handlers are taken at the arrival of a request and at
\* the return of each call they wait for.
C33_EveryRequestAnswered ==
  /\ \A email \in {undefined, EmailA, EmailB} :
       \A password \in {undefined, PasswordP} :
         PostNewEnd(email, password).pc # "crashed"
  /\ \A authorization \in Authorizations :
       GetConnectEnd(authorization).pc # "crashed"
  /\ \A token \in Tokens :
       /\ GetDisconnectEnd(token).pc # "crashed"
       /\ GetMeEnd(token).pc # "crashed"
  /\ \A r \in Waiting("postNew", "createUser") :
       PostNewCreateUserEnd(reqs[r]).pc # "crashed"
  /\ \A r \in Waiting("getMe", "getUser") :
       GetMeGetUserEnd(reqs[r]).pc # "crashed"

\* C34: of the disconnects that name one live token, whatever their order,
\* exactly one is answered 204 and every other 401 Unauthorized, and the
\* session is gone afterwards.  A disconnect is answered by its DEL, one
\* command of the cache: for a live token it answers 204 and removes the
\* key, a token enters the set of the tokens answered 204 only while its
\* session is live, and once there its key is not in the store and
\* every further disconnect of it is answered 401.
C34_OneDisconnectSucceeds ==
  /\ [](\A token \in DOMAIN issued :
          /\ Live(AuthKey(token)) =>
               /\ token \notin revoked
               /\ GetDisconnectEnd(token).pc = "done"
               /\ GetDisconnectEnd(token).status = 204
               /\ AuthKey(token) \notin DOMAIN SessionsAfterDisconnect(token)
          /\ token \in revoked =>
               /\ AuthKey(token) \notin DOMAIN sessions
               /\ Failed(GetDisconnectEnd(token), 401, "Unauthorized")
               /\ SessionsAfterDisconnect(token) = sessions)
  /\ [][revoked' # revoked =>
          \E token \in DOMAIN issued :
            /\ Live(AuthKey(token))
            /\ revoked' = revoked \cup {token}
            /\ AuthKey(token) \notin DOMAIN sessions']_vars

\* Two tokens were disconnected with success while a third session is live:
\* a further disconnect of either is answered 401.
C34_Witness ==
  /\ Cardinality(revoked) = 2
  /\ \E token \in DOMAIN issued : Live(AuthKey(token))
  /\ \A token \in revoked :
       Failed(GetDisconnectEnd(token), 401, "Unauthorized")

\* C35: in every state the value of each stored session is the email of a
\* user of the collection, and each request that has read a session and
\* waits for getUser finds the user: the 401 of a session without a user
\* is answered to none.
C35_SessionsOfExistingUsers ==
  /\ \A k \in DOMAIN sessions : Registered(sessions[k].value) # {}
  /\ \A r \in Slots :
       reqs[r].pc = "getUser" =>
         /\ ~IsNull(GetUser(reqs[r].email))
         /\ ~Failed(StepEnd(reqs[r]), 401, "Unauthorized")

\* A getMe waits for getUser with the email of a live session while two
\* users are registered.
C35_Witness ==
  /\ Len(users) = 2
  /\ \E r \in Waiting("getMe", "getUser") :
       /\ Live(AuthKey(reqs[r].token))
       /\ GetMeGetUserEnd(reqs[r]).status = 200

\* The list that the holder of token would be given for query, at the call
\* of getFiles.
ListAt(token, parentId) ==
  GetIndexGetUserEnd(GetIndexEnd(token, [parentId |-> parentId,
                                         page |-> undefined]))

\* The ids of the pages 0..MaxPage of a list, one after another.
AllPagesIds(list) == PagesIds(list, MaxPage)

\* C36: the document that an upload answered 201 has inserted for a user
\* with a parentId, or with none for the root, is in exactly one of the
\* pages of the list of that user with that parentId, or with none, read
\* from the store as the insert has left it; and in every state each
\* document of a user under a parentId is once in the pages of that list.
C36_ListCompleteForUpload ==
  /\ [](\A token \in DOMAIN issued :
          \A parentId \in {undefined, BrowseParent, ParentHex} :
            LET list == ListAt(token, parentId)
                ids == AllPagesIds(list)
                all == Matching(issued[token].userId,
                                QueryParentId([parentId |-> parentId]))
            IN /\ list.pc = "getFiles"
               /\ {all[i]._id : i \in 1..Len(all)}
                    \subseteq {ids[j] : j \in 1..Len(ids)}
               /\ Cardinality({ids[j] : j \in 1..Len(ids)}) = Len(ids))
  /\ [][\A r \in Waiting("postUpload", "createFolder")
                  \cup Waiting("postUpload", "createFile") :
          reqs'[r] = Idle =>
            \A list \in {ListAt(reqs[r].token, reqs[r].body.parentId)} :
              \A created \in {NewObjectId} :
                LET holding == {n \in 0..MaxPage :
                                  \E j \in 1..Len(PageIds(list, n)') :
                                    PageIds(list, n)'[j] = created}
                IN /\ StepEnd(reqs[r]).status = 201
                   /\ StepEnd(reqs[r]).json.id = created
                   /\ files'[Len(files')]._id = created
                   /\ Cardinality(holding) = 1
                   /\ \A n \in holding :
                        Cardinality({j \in 1..Len(PageIds(list, n)') :
                                       PageIds(list, n)'[j] = created}) = 1]_vars

\* A folder was uploaded with a parentId after a document at the root: the
\* list of its user with that parentId holds it on its first page and no
\* other, and the list of the root does not hold it.
C36_Witness ==
  /\ Len(files) = 2
  /\ files[1].parentId = Number(0)
  /\ files[2].parentId = ParentHex
  /\ files[2].userId = issued[v4(1)].userId
  /\ PageIds(ListAt(v4(1), ParentHex), 0) = <<files[2]._id>>
  /\ PageIds(ListAt(v4(1), ParentHex), 1) = <<>>
  /\ \A j \in 1..Len(PageIds(ListAt(v4(1), undefined), 0)) :
       PageIds(ListAt(v4(1), undefined), 0)[j] # files[2]._id

====
